---- MODULE Spec2Model ----
(***************************************************************************)
(* A verification model of the path-tracing renderer: the ray/sphere and   *)
(* bounding-volume hit tests, the materials' scatter functions, the        *)
(* camera builder, the pixel encoder, the iterative ray_color walk, the    *)
(* row-parallel integrator loop, the noise tables and their layered        *)
(* adapters, vector normalisation, scene-name parsing and the recursive    *)
(* construction of the bounding-volume hierarchy.                          *)
(*                                                                         *)
(* f64 values are modelled by exact rationals <<n, d>> (d > 0, lowest      *)
(* terms) extended with the IEEE specials +inf, -inf and NaN where the    *)
(* code can produce them (the slab test divides by a zero direction        *)
(* component).  Square roots are taken only of perfect squares: the input  *)
(* sets below are chosen so that every root the code takes is rational.    *)
(* Where the rounding of f64 operations decides the outcome (the           *)
(* normalisation in fBm and turbulence) every operation is rounded to a    *)
(* significand of MantissaBits bits.                                       *)
(***************************************************************************)
EXTENDS Integers, Sequences, FiniteSets, TLC

VARIABLES
    hitIn,      \* [prims, ray, range]: the inputs of one intersection query
    bvh,        \* the tree BVH::from_list built from hitIn.prims, or NoTree
    hitOut,     \* [prim, list, tree]: the results of the three queries
    matIn,      \* inputs of one Material::scatter call
    matOut,     \* its result
    builder,    \* the CameraBuilder's fields
    camera,     \* the result of CameraBuilder::build
    screen,     \* Screen.buffer, a flat sequence of colors
    encoded,    \* the result of Screen::encode
    path,       \* the hit/scatter outcomes the scene gives along one path
    rc,         \* ray_color's locals: color, ray, bounces, position, result
    cfg,        \* the resolved configuration of one render
    rows,       \* per row: the row closure's position, next column and rng
    buffer,     \* Screen.buffer during the parallel pass
    rows_done,  \* the shared AtomicUsize
    progress,   \* the progress thread: its position and the count it loaded
    noise,      \* a noise table under construction: perms and the loop index
    call,       \* the arguments of one call of a pure function
    ret,        \* the value that call returned
    frames      \* the call stack of BVH::inner_list during one construction

hitVars == <<hitIn, bvh, hitOut>>
matVars == <<matIn, matOut>>
camVars == <<builder, camera>>
encVars == <<screen, encoded>>
pathVars == <<path, rc>>
renderVars == <<cfg, rows, buffer, rows_done, progress>>
noiseVars == <<noise>>
callVars == <<call, ret>>
buildVars == <<frames>>
vars == <<hitIn, bvh, hitOut, matIn, matOut, builder, camera, screen, encoded,
          path, rc, cfg, rows, buffer, rows_done, progress, noise, call, ret,
          frames>>

\* The value of every variable a specification does not use.
Idle == "idle"

-----------------------------------------------------------------------------
(* f64 arithmetic on exact rationals *)

Abs(x) == IF x < 0 THEN -x ELSE x

RECURSIVE Gcd(_, _)
Gcd(a, b) == IF b = 0 THEN a ELSE Gcd(b, a % b)

\* The rational n/d in lowest terms with a positive denominator (d # 0).
Rat(n, d) ==
    LET s == IF d < 0 THEN -1 ELSE 1
        g == Gcd(Abs(n), Abs(d))
    IN  <<(s * n) \div g, (s * d) \div g>>

R(k) == <<k, 1>>
\* The IEEE specials, written as the quotients that produce them.
PInf == <<1, 0>>
NInf == <<-1, 0>>
NaN == <<0, 0>>
IsNaN(a) == a = NaN
IsFinite(a) == a[2] # 0
Zero == R(0)
One == R(1)
Half == Rat(1, 2)

RAdd(a, b) ==
    LET g == Gcd(a[2], b[2])
    IN  Rat(a[1] * (b[2] \div g) + b[1] * (a[2] \div g), a[2] * (b[2] \div g))
RNeg(a) == <<-a[1], a[2]>>
RSub(a, b) == RAdd(a, RNeg(b))
RMul(a, b) == Rat(a[1] * b[1], a[2] * b[2])
\* a / b for b # 0
RDiv(a, b) == Rat(a[1] * b[2], a[2] * b[1])
RLt(a, b) == a[1] * b[2] < b[1] * a[2]
RLe(a, b) == a[1] * b[2] <= b[1] * a[2]
RSq(a) == RMul(a, a)
RMin(a, b) == IF RLt(b, a) THEN b ELSE a
RMax(a, b) == IF RLt(a, b) THEN b ELSE a

IsSquare(n) == n >= 0 /\ \E k \in 0..n : k * k = n
ISqrt(n) == CHOOSE k \in 0..n : k * k = n
\* f64::sqrt of a non-negative rational whose root is rational
RIsSquare(a) == IsSquare(a[1]) /\ IsSquare(a[2])
RSqrt(a) == <<ISqrt(a[1]), ISqrt(a[2])>>

\* powi(n) for n >= 0
RECURSIVE RPow(_, _)
RPow(a, n) == IF n = 0 THEN One ELSE RMul(a, RPow(a, n - 1))

-----------------------------------------------------------------------------
(* Vec3 *)

V(x, y, z) == <<R(x), R(y), R(z)>>
VAdd(a, b) == <<RAdd(a[1], b[1]), RAdd(a[2], b[2]), RAdd(a[3], b[3])>>
VSub(a, b) == <<RSub(a[1], b[1]), RSub(a[2], b[2]), RSub(a[3], b[3])>>
VNeg(a) == <<RNeg(a[1]), RNeg(a[2]), RNeg(a[3])>>
VScale(a, k) == <<RMul(a[1], k), RMul(a[2], k), RMul(a[3], k)>>
VDivS(a, k) == <<RDiv(a[1], k), RDiv(a[2], k), RDiv(a[3], k)>>
Dot(a, b) == RAdd(RAdd(RMul(a[1], b[1]), RMul(a[2], b[2])), RMul(a[3], b[3]))
Cross(a, b) ==
    <<RSub(RMul(a[2], b[3]), RMul(a[3], b[2])),
      RSub(RMul(a[3], b[1]), RMul(a[1], b[3])),
      RSub(RMul(a[1], b[2]), RMul(a[2], b[1]))>>
NormSquared(a) == Dot(a, a)
Norm(a) == RSqrt(NormSquared(a))
\* Vec3::normalized; the zero vector gives NaN components (0/0)
Normalized(v) == IF NormSquared(v) = Zero THEN <<NaN, NaN, NaN>> ELSE VDivS(v, Norm(v))
VIsNaN(v) == IsNaN(v[1]) \/ IsNaN(v[2]) \/ IsNaN(v[3])
\* Vec3::normalized as a call: debug_assert!(!normed.is_nan()) is compiled
\* in only when the build has debug assertions
NormalizedCall(v, debug_assertions) ==
    LET normed == Normalized(v)
    IN  IF debug_assertions /\ VIsNaN(normed)
        THEN [kind |-> "panic", msg |-> "Tried to normalize vector of length 0!"]
        ELSE [kind |-> "value", v |-> normed]
\* checked_normalized without the ensure!
CheckedNormalizedNoEnsure(v) == [ok |-> TRUE, v |-> Normalized(v)]
\* Vec3::checked_normalized: Err exactly when the norm is 0
CheckedNormalized(v) ==
    IF Norm(v) = Zero THEN [ok |-> FALSE] ELSE [ok |-> TRUE, v |-> VDivS(v, Norm(v))]

Axes == 1..3

-----------------------------------------------------------------------------
(* Comparisons and min/max on f64 values that may be infinite or NaN *)

\* a < b; false when either side is NaN
XLt(a, b) ==
    /\ ~IsNaN(a)
    /\ ~IsNaN(b)
    /\ IF IsFinite(a) /\ IsFinite(b) THEN RLt(a, b)
       ELSE IF a = NInf THEN b # NInf
       ELSE IF b = PInf THEN a # PInf
       ELSE FALSE
XLe(a, b) == ~IsNaN(a) /\ ~IsNaN(b) /\ (a = b \/ XLt(a, b))
\* f64::max and f64::min return the other operand when one is NaN
XMax(a, b) == IF IsNaN(b) THEN a ELSE IF IsNaN(a) THEN b ELSE IF XLt(a, b) THEN b ELSE a
XMin(a, b) == IF IsNaN(b) THEN a ELSE IF IsNaN(a) THEN b ELSE IF XLt(b, a) THEN b ELSE a
\* 1.0 / d: a zero component gives +inf
XInv(d) == IF d = Zero THEN PInf ELSE RDiv(One, d)
\* a * k for a finite a and k finite or infinite: 0 * inf is NaN
XMul(a, k) ==
    IF IsFinite(k) THEN RMul(a, k)
    ELSE IF a = Zero THEN NaN
    ELSE IF (a[1] > 0) = (k = PInf) THEN PInf ELSE NInf

\* Range<f64>::contains: start <= t < end
Contains(range, t) == XLe(range.start, t) /\ XLt(t, range.end)

-----------------------------------------------------------------------------
(* Hit records and primitives *)

NoHit == [hit |-> FALSE]

\* Hit::ray: orient the normal against the incident ray
HitRayFlipped(point, normal, t, ray, material) ==
    LET front_face == RLt(Zero, Dot(ray.dir, normal))
    IN  [hit |-> TRUE, point |-> point,
         normal |-> IF ~front_face THEN VNeg(normal) ELSE normal,
         time |-> t, front_face |-> front_face, material |-> material]
HitRay(point, normal, t, ray, material) ==
    LET front_face == RLt(Dot(ray.dir, normal), Zero)
    IN  [hit |-> TRUE, point |-> point,
         normal |-> IF ~front_face THEN VNeg(normal) ELSE normal,
         time |-> t, front_face |-> front_face, material |-> material]

\* Ray::at
At(ray, t) == VAdd(ray.origin, VScale(ray.dir, t))

\* MovingSphere::center; a Sphere is a primitive whose two keyframes coincide
Center(p, time) ==
    IF p.kind = "sphere" THEN p.c0
    ELSE VAdd(p.c0, VDivS(VScale(VSub(p.c1, p.c0), RSub(time, p.t0)), RSub(p.t1, p.t0)))

\* The quadratic of Sphere::hit / MovingSphere::hit
Quadratic(p, ray) ==
    LET oc == VSub(ray.origin, Center(p, ray.time))
        a == NormSquared(ray.dir)
        half_b == Dot(oc, ray.dir)
        c == RSub(NormSquared(oc), RPow(p.radius, 2))
    IN  [a |-> a, half_b |-> half_b, c |-> c,
         discriminant |-> RSub(RPow(half_b, 2), RMul(a, c))]

\* Sphere::hit with the two roots tried in the other order
SphereHitLargerFirst(p, ray, range) ==
    LET q == Quadratic(p, ray)
        center == Center(p, ray.time)
        hit(t) == HitRay(At(ray, t), VDivS(VSub(At(ray, t), center), p.radius),
                         t, ray, p.material)
    IN  IF RLe(Zero, q.discriminant) /\ q.a # Zero
        THEN LET root == RSqrt(q.discriminant)
                 t1 == RDiv(RSub(RNeg(q.half_b), root), q.a)
                 t2 == RDiv(RAdd(RNeg(q.half_b), root), q.a)
             IN  IF Contains(range, t2) THEN hit(t2)
                 ELSE IF Contains(range, t1) THEN hit(t1)
                 ELSE NoHit
        ELSE NoHit

\* Sphere::hit and MovingSphere::hit.  A zero direction makes both roots NaN,
\* which no range contains.
SphereHit(p, ray, range) ==
    LET q == Quadratic(p, ray)
        center == Center(p, ray.time)
        hit(t) == HitRay(At(ray, t), VDivS(VSub(At(ray, t), center), p.radius),
                         t, ray, p.material)
    IN  IF RLe(Zero, q.discriminant) /\ q.a # Zero
        THEN LET root == RSqrt(q.discriminant)
                 t1 == RDiv(RSub(RNeg(q.half_b), root), q.a)
                 t2 == RDiv(RAdd(RNeg(q.half_b), root), q.a)
             IN  IF Contains(range, t1) THEN hit(t1)
                 ELSE IF Contains(range, t2) THEN hit(t2)
                 ELSE NoHit
        ELSE NoHit

-----------------------------------------------------------------------------
(* AABB *)

VMin(a, b) == <<RMin(a[1], b[1]), RMin(a[2], b[2]), RMin(a[3], b[3])>>
VMax(a, b) == <<RMax(a[1], b[1]), RMax(a[2], b[2]), RMax(a[3], b[3])>>

NoBox == [some |-> FALSE]
Box(min, max) == [some |-> TRUE, min |-> min, max |-> max]

\* A surrounding box that is only the first box
SurroundingFirst(a, b) == Box(a.min, a.max)
\* AABB::surrounding
Surrounding(a, b) == Box(VMin(a.min, b.min), VMax(a.max, b.max))

\* One axis of the slab test: the closure `hit` of AABB::hit, which narrows
\* the captured range and answers whether it is still non-empty.
SlabStep(box, ray, range, axis) ==
    LET inv_dir == XInv(ray.dir[axis])
        ta == XMul(RSub(box.min[axis], ray.origin[axis]), inv_dir)
        tb == XMul(RSub(box.max[axis], ray.origin[axis]), inv_dir)
        t0 == IF XLt(inv_dir, Zero) THEN tb ELSE ta
        t1 == IF XLt(inv_dir, Zero) THEN ta ELSE tb
    IN  [start |-> XMax(range.start, t0), end |-> XMin(range.end, t1)]

\* AABB::hit: X, then Y, then Z, each requiring range.end > range.start
AABBHit(box, ray, hit_time) ==
    LET rx == SlabStep(box, ray, hit_time, 1)
        ry == SlabStep(box, ray, rx, 2)
        rz == SlabStep(box, ray, ry, 3)
    IN  XLt(rx.start, rx.end) /\ XLt(ry.start, ry.end) /\ XLt(rz.start, rz.end)

\* Sphere::bounding_box and MovingSphere::bounding_box
PrimBox(p, shutter_time) ==
    LET rad == <<p.radius, p.radius, p.radius>>
        at(t) == Box(VSub(Center(p, t), rad), VAdd(Center(p, t), rad))
    IN  IF p.kind = "sphere" THEN at(Zero)
        ELSE Surrounding(at(shutter_time.start), at(shutter_time.end))

-----------------------------------------------------------------------------
(* HitList and BVH *)

\* HitList::hit: every member is probed with the range shortened to the
\* closest hit so far.
RECURSIVE HitListFrom(_, _, _, _, _)
HitListFrom(list, i, ray, range, closest) ==
    IF i > Len(list) THEN closest
    ELSE LET h == SphereHit(list[i], ray, range)
         IN  IF h.hit
             THEN HitListFrom(list, i + 1, ray, [range EXCEPT !.end = h.time], h)
             ELSE HitListFrom(list, i + 1, ray, range, closest)
\* A HitList::hit that keeps the caller's range for every member, so that
\* the last member hit is returned
RECURSIVE HitListKeepRange(_, _, _, _, _)
HitListKeepRange(list, i, ray, range, closest) ==
    IF i > Len(list) THEN closest
    ELSE LET h == SphereHit(list[i], ray, range)
         IN  HitListKeepRange(list, i + 1, ray, range, IF h.hit THEN h ELSE closest)
HitListHitKeepRange(list, ray, hit_time) == HitListKeepRange(list, 1, ray, hit_time, NoHit)
HitListHit(list, ray, hit_time) == HitListFrom(list, 1, ray, hit_time, NoHit)

\* The placeholder child: never hit, no bounding box
Dummy == [kind |-> "dummy"]
Leaf(p) == [kind |-> "leaf", prim |-> p]
\* BVH::new
Node(box, left, right) == [kind |-> "bvh", bound_box |-> box, left |-> left, right |-> right]

\* Hittable::bounding_box of a child
BoundingBox(h, shutter_time) ==
    IF h.kind = "dummy" THEN NoBox
    ELSE IF h.kind = "leaf" THEN PrimBox(h.prim, shutter_time)
    ELSE h.bound_box

\* BVH::from: a child without a box is a panic
From(left, right, shutter_time) ==
    LET l_box == BoundingBox(left, shutter_time)
        r_box == BoundingBox(right, shutter_time)
    IN  IF l_box.some /\ r_box.some
        THEN Node(Surrounding(l_box, r_box), left, right)
        ELSE [kind |-> "panic"]

\* The comparator of the sort in inner_list: every call draws its own axis
\* (rng.gen() inside the closure), so is_less(a, b) has one outcome per axis.
LessOutcomes(a, b, shutter_time) ==
    {RLt(PrimBox(a, shutter_time).min[axis], PrimBox(b, shutter_time).min[axis]) :
        axis \in Axes}

\* sort_unstable_by on a short slice is an insertion sort: the element x is
\* moved left past every element it compares less than.
RECURSIVE InsertOutcomes(_, _, _)
InsertOutcomes(sorted, x, shutter_time) ==
    IF sorted = <<>> THEN {<<x>>}
    ELSE LET last == sorted[Len(sorted)]
             front == SubSeq(sorted, 1, Len(sorted) - 1)
         IN  UNION {IF less
                    THEN {Append(s, last) : s \in InsertOutcomes(front, x, shutter_time)}
                    ELSE {Append(sorted, x)} :
                    less \in LessOutcomes(x, last, shutter_time)}
RECURSIVE SortOutcomes(_, _)
SortOutcomes(list, shutter_time) ==
    IF Len(list) <= 1 THEN {list}
    ELSE UNION {InsertOutcomes(s, list[Len(list)], shutter_time) :
                   s \in SortOutcomes(SubSeq(list, 1, Len(list) - 1), shutter_time)}

\* BVH::inner_list: the set of trees it can return, one per outcome of the rng
RECURSIVE InnerList(_, _)
InnerList(hitlist, shutter_time) ==
    IF Len(hitlist) = 1
    THEN {Node(PrimBox(hitlist[1], shutter_time), Dummy, Leaf(hitlist[1]))}
    ELSE IF Len(hitlist) = 2
    THEN {From(Leaf(hitlist[2]), Leaf(hitlist[1]), shutter_time)}
    ELSE UNION {LET mid == Len(s) \div 2
                IN  {From(l, r, shutter_time) :
                        l \in InnerList(SubSeq(s, 1, mid), shutter_time),
                        r \in InnerList(SubSeq(s, mid + 1, Len(s)), shutter_time)} :
                s \in SortOutcomes(hitlist, shutter_time)}

\* BVH::from_list
FromList(hitlist, shutter_time) == InnerList(hitlist, shutter_time)

\* A BVH::hit that probes the right child with the caller's whole range
RECURSIVE TreeHitFullRange(_, _, _)
TreeHitFullRange(h, ray, hit_time) ==
    IF h.kind = "dummy" THEN NoHit
    ELSE IF h.kind = "leaf" THEN SphereHit(h.prim, ray, hit_time)
    ELSE IF ~AABBHit(h.bound_box, ray, hit_time) THEN NoHit
    ELSE LET hit_left == TreeHitFullRange(h.left, ray, hit_time)
             right_hit == TreeHitFullRange(h.right, ray, hit_time)
         IN  IF right_hit.hit THEN right_hit ELSE hit_left
\* BVH::hit, and the hit of its children
RECURSIVE TreeHit(_, _, _)
TreeHit(h, ray, hit_time) ==
    IF h.kind = "dummy" THEN NoHit
    ELSE IF h.kind = "leaf" THEN SphereHit(h.prim, ray, hit_time)
    ELSE IF ~AABBHit(h.bound_box, ray, hit_time) THEN NoHit
    ELSE LET hit_left == TreeHit(h.left, ray, hit_time)
             range == IF hit_left.hit THEN [hit_time EXCEPT !.end = hit_left.time]
                      ELSE hit_time
             right_hit == TreeHit(h.right, ray, range)
         IN  IF right_hit.hit THEN right_hit ELSE hit_left

-----------------------------------------------------------------------------
(* The intersection queries: one scene list, one ray, one allowed range *)

\* Longest list of primitives handed to HitList and BVH::from_list
MaxList == 3

Sphere(c, r, m) ==
    [kind |-> "sphere", c0 |-> c, c1 |-> c, t0 |-> Zero, t1 |-> One,
     radius |-> r, material |-> m]
MovingSphere(c0, c1, t0, t1, r, m) ==
    [kind |-> "moving", c0 |-> c0, c1 |-> c1, t0 |-> t0, t1 |-> t1,
     radius |-> r, material |-> m]
Ray(origin, dir, time) == [origin |-> origin, dir |-> dir, time |-> time]

Prims ==
    {Sphere(V(0, 0, 0), One, 1),
     Sphere(V(3, 0, 0), One, 2),
     Sphere(V(0, 0, -1), Half, 3),
     MovingSphere(V(0, 0, 0), V(0, 2, 0), Zero, One, One, 4)}

RayGeometry ==
    {<<V(0, 0, 0), V(0, 0, -1)>>,
     <<V(-3, 0, 0), V(1, 0, 0)>>,
     <<V(0, 0, 0), V(1, 0, 0)>>,
     <<V(-3, 1, 0), V(1, 0, 0)>>,
     <<V(-3, 5, 0), V(1, 0, 0)>>,
     <<V(5, 0, 0), V(-2, 0, 0)>>}
RayTimes == {Zero, Half}
Rays == {Ray(g[1], g[2], t) : g \in RayGeometry, t \in RayTimes}

\* 0.001..INFINITY is the range ray_color passes
Ranges ==
    {[start |-> Rat(1, 1000), end |-> PInf],
     [start |-> One, end |-> R(5)],
     [start |-> R(2), end |-> R(6)]}

\* The shutter interval the scenes build their BVH for
Shutter == [start |-> Zero, end |-> One]

\* Lists of distinct primitives, 1..MaxList long
RECURSIVE ListsOf(_)
ListsOf(n) ==
    IF n = 0 THEN {<<>>}
    ELSE {Append(l, p) : l \in ListsOf(n - 1), p \in Prims} \cup {<<>>}
Distinct(l) == \A i, j \in 1..Len(l) : i # j => l[i] # l[j]
PrimLists == {l \in ListsOf(MaxList) : Len(l) >= 1 /\ Distinct(l)}

\* The inputs whose square roots are rational
ExactQuery(list, ray) ==
    \A i \in 1..Len(list) :
        LET d == Quadratic(list[i], ray).discriminant
        IN  RLt(d, Zero) \/ RIsSquare(d)

NoTree == [kind |-> "none"]

InitHit ==
    /\ hitIn \in {[prims |-> l, ray |-> r, range |-> g] :
                    l \in PrimLists, r \in Rays, g \in Ranges}
    /\ ExactQuery(hitIn.prims, hitIn.ray)
    /\ bvh = NoTree
    /\ hitOut = [primDone |-> FALSE, prim |-> NoHit,
                 listDone |-> FALSE, list |-> NoHit,
                 treeDone |-> FALSE, tree |-> NoHit]
    /\ matIn = Idle /\ matOut = Idle
    /\ builder = Idle /\ camera = Idle
    /\ screen = Idle /\ encoded = Idle
    /\ path = Idle /\ rc = Idle
    /\ cfg = Idle /\ rows = Idle /\ buffer = Idle /\ rows_done = Idle
    /\ progress = Idle
    /\ noise = Idle /\ call = Idle /\ ret = Idle
    /\ frames = Idle

\* BVH::from_list(list, &(0.0..1.), rng)
BuildBVH ==
    /\ bvh = NoTree
    /\ bvh' \in FromList(hitIn.prims, Shutter)
    /\ UNCHANGED <<hitIn, hitOut, matVars, camVars, encVars, pathVars, renderVars, noiseVars, callVars, buildVars>>

\* Sphere::hit / MovingSphere::hit of the first primitive
QueryPrim ==
    /\ bvh # NoTree
    /\ ~hitOut.primDone
    /\ hitOut' = [hitOut EXCEPT !.primDone = TRUE,
                                !.prim = SphereHit(hitIn.prims[1], hitIn.ray, hitIn.range)]
    /\ UNCHANGED <<hitIn, bvh, matVars, camVars, encVars, pathVars, renderVars, noiseVars, callVars, buildVars>>

\* HitList::hit
QueryList ==
    /\ hitOut.primDone
    /\ ~hitOut.listDone
    /\ hitOut' = [hitOut EXCEPT !.listDone = TRUE,
                                !.list = HitListHit(hitIn.prims, hitIn.ray, hitIn.range)]
    /\ UNCHANGED <<hitIn, bvh, matVars, camVars, encVars, pathVars, renderVars, noiseVars, callVars, buildVars>>

\* BVH::hit
QueryBVH ==
    /\ bvh.kind = "bvh"
    /\ hitOut.listDone
    /\ ~hitOut.treeDone
    /\ hitOut' = [hitOut EXCEPT !.treeDone = TRUE,
                                !.tree = TreeHit(bvh, hitIn.ray, hitIn.range)]
    /\ UNCHANGED <<hitIn, bvh, matVars, camVars, encVars, pathVars, renderVars, noiseVars, callVars, buildVars>>

\* The construction comes first and the three queries follow in a fixed order:
\* they are independent calls that read the same immutable scene.
NextHit == BuildBVH \/ QueryPrim \/ QueryList \/ QueryBVH
SpecHit == InitHit /\ [][NextHit]_vars

\* Both roots' points of every primitive lie in the primitive's box.
InBox(box, pt) == \A k \in Axes : RLe(box.min[k], pt[k]) /\ RLe(pt[k], box.max[k])
HitPoints(p, ray) ==
    LET q == Quadratic(p, ray)
    IN  IF RLe(Zero, q.discriminant) /\ q.a # Zero
        THEN {At(ray, RDiv(RSub(RNeg(q.half_b), RSqrt(q.discriminant)), q.a)),
              At(ray, RDiv(RAdd(RNeg(q.half_b), RSqrt(q.discriminant)), q.a))}
        ELSE {}
BoxesContainHits ==
    \A i \in 1..Len(hitIn.prims) :
        \A pt \in HitPoints(hitIn.prims[i], hitIn.ray) :
            InBox(PrimBox(hitIn.prims[i], Shutter), pt)

\* C2: for every list, construction outcome, ray and range (the boxes
\* containing the primitives' hit points), the BVH reports no hit exactly
\* when the flat list reports no hit, and otherwise the same distance.
C2_BvhMatchesList ==
    (hitOut.treeDone /\ hitOut.listDone /\ BoxesContainHits) =>
        /\ hitOut.tree.hit = hitOut.list.hit
        /\ hitOut.list.hit => hitOut.tree.time = hitOut.list.time

\* The first primitive of the list, the one QueryPrim probes
Prim1 == hitIn.prims[1]
\* The value of the quadratic a t^2 + 2 half_b t + c at t
QuadraticAt(q, t) ==
    RAdd(RAdd(RMul(q.a, RMul(t, t)), RMul(R(2), RMul(q.half_b, t))), q.c)
SmallerRoot(q) == RDiv(RSub(RNeg(q.half_b), RSqrt(q.discriminant)), q.a)
LargerRoot(q) == RDiv(RAdd(RNeg(q.half_b), RSqrt(q.discriminant)), q.a)

\* C7: no hit when the quadratic has no real root; otherwise the smaller root
\* if it lies in [start, end), else the larger root if it does, else no hit;
\* a returned distance is a root of the quadratic and lies in the range.
C7_SphereHitRoots ==
    hitOut.primDone =>
        LET q == Quadratic(Prim1, hitIn.ray)
            h == hitOut.prim
        IN  IF RLt(q.discriminant, Zero) THEN ~h.hit
            ELSE IF Contains(hitIn.range, SmallerRoot(q))
                 THEN h.hit /\ h.time = SmallerRoot(q)
            ELSE IF Contains(hitIn.range, LargerRoot(q))
                 THEN h.hit /\ h.time = LargerRoot(q)
            ELSE ~h.hit
C7_HitInsideRange ==
    (hitOut.primDone /\ hitOut.prim.hit) =>
        /\ Contains(hitIn.range, hitOut.prim.time)
        /\ QuadraticAt(Quadratic(Prim1, hitIn.ray), hitOut.prim.time) = Zero
        /\ hitOut.prim.point = At(hitIn.ray, hitOut.prim.time)
C7_SphereHit == C7_SphereHitRoots /\ C7_HitInsideRange
\* The ray (0,0,0) -> (0,0,-1) against the sphere at (0,0,-1) of radius 0.5
\* hits at t = 0.5 with normal (0,0,1).
C7_Witness ==
    /\ hitOut.primDone
    /\ Prim1 = Sphere(V(0, 0, -1), Half, 3)
    /\ hitIn.ray.origin = V(0, 0, 0) /\ hitIn.ray.dir = V(0, 0, -1)
    /\ hitOut.prim.hit
    /\ hitOut.prim.time = Half
    /\ hitOut.prim.normal = V(0, 0, 1)
\* The smaller root is outside the range and the larger one is returned.
C7_WitnessLarger ==
    /\ hitOut.primDone /\ hitOut.prim.hit
    /\ hitOut.prim.time = LargerRoot(Quadratic(Prim1, hitIn.ray))
    /\ hitOut.prim.time # SmallerRoot(Quadratic(Prim1, hitIn.ray))

\* The geometric outward normal of the probed primitive at the hit point
OutwardNormal(h) ==
    VDivS(VSub(h.point, Center(Prim1, hitIn.ray.time)), Prim1.radius)

-----------------------------------------------------------------------------
(* Materials *)

\* Color::default(), the multiplicative identity
ColorDefault == <<One, One, One>>
Black == <<Zero, Zero, Zero>>
\* Color * Color and Color * f64
CMul(a, b) == <<RMul(a[1], b[1]), RMul(a[2], b[2]), RMul(a[3], b[3])>>
CScale(a, k) == <<RMul(a[1], k), RMul(a[2], k), RMul(a[3], k)>>
CAdd(a, b) == <<RAdd(a[1], b[1]), RAdd(a[2], b[2]), RAdd(a[3], b[3])>>

\* Vec3::reflect: the incident vector is normalized first
Reflect(v, normal) ==
    LET unit_dir == Normalized(v)
    IN  VSub(unit_dir, VScale(normal, RMul(R(2), Dot(unit_dir, normal))))

\* Vec3::refract.  The result is refract_parallel - normal * sqrt(perp_sq);
\* the root is kept symbolic, and is NaN exactly when perp_sq < 0.
Refract(v, normal, eta_i_over_eta_t) ==
    LET cos_theta == Dot(VNeg(v), normal)
        refract_parallel == VScale(VAdd(v, VScale(normal, cos_theta)), eta_i_over_eta_t)
        perp_sq == RSub(One, NormSquared(refract_parallel))
    IN  [parallel |-> refract_parallel, normal |-> normal, perp_sq |-> perp_sq,
         nan |-> RLt(perp_sq, Zero)]

\* Metal::new: the fuzz is capped at 1
MetalNew(albedo, fuzz) == [albedo |-> albedo, fuzz |-> XMin(fuzz, One)]

\* Metal::scatter with the perturbation added unscaled
MetalScatterUnscaled(metal, ray, hit, sample) ==
    LET reflected == VAdd(Reflect(ray.dir, hit.normal), sample)
    IN  [some |-> TRUE, albedo |-> metal.albedo, origin |-> hit.point,
         dir |-> IF RLe(Dot(reflected, hit.normal), Zero)
                 THEN VSub(reflected, VScale(sample, R(2)))
                 ELSE reflected,
         time |-> ray.time]

\* Metal::scatter; sample is what Vec3::rand_unit_sphere(rng) returns
MetalScatter(metal, ray, hit, sample) ==
    LET fuzz == VScale(sample, metal.fuzz)
        reflected == VAdd(Reflect(ray.dir, hit.normal), fuzz)
    IN  [some |-> TRUE, albedo |-> metal.albedo, origin |-> hit.point,
         dir |-> IF RLe(Dot(reflected, hit.normal), Zero)
                 THEN VSub(reflected, VScale(fuzz, R(2)))
                 ELSE reflected,
         time |-> ray.time]

\* Dielectric::schlick
Schlick(cos, eta_i_over_eta_t) ==
    LET r == RDiv(RSub(One, eta_i_over_eta_t), RAdd(One, eta_i_over_eta_t))
        r0 == RMul(r, r)
    IN  RAdd(r0, RMul(RSub(One, r0), RPow(RSub(One, cos), 5)))

\* The quantities Dielectric::scatter derives before it picks a branch
DielectricAngles(ref_index, ray, hit) ==
    LET eta == IF hit.front_face THEN RDiv(One, ref_index) ELSE ref_index
        unit_dir == Normalized(ray.dir)
        cos_theta == RMin(Dot(VNeg(unit_dir), hit.normal), One)
    IN  [eta |-> eta, unit_dir |-> unit_dir, cos_theta |-> cos_theta,
         sin_theta |-> RSqrt(RSub(One, RPow(cos_theta, 2)))]

\* Dielectric::scatter with the random draw consulted before the
\* total-internal-reflection test, and alone deciding the branch
DielectricScatterDrawOnly(ref_index, ray, hit, draw) ==
    LET g == DielectricAngles(ref_index, ray, hit)
        reflects == RLt(draw, Schlick(g.cos_theta, g.eta))
    IN  [some |-> TRUE, albedo |-> ColorDefault, origin |-> hit.point,
         branch |-> IF reflects THEN "reflect" ELSE "refract",
         dir |-> IF reflects THEN Reflect(g.unit_dir, hit.normal)
                 ELSE Refract(g.unit_dir, hit.normal, g.eta),
         time |-> ray.time]

\* Dielectric::scatter; draw is what rng.gen::<f64>() returns if it is called
DielectricScatter(ref_index, ray, hit, draw) ==
    LET g == DielectricAngles(ref_index, ray, hit)
        reflects == \/ RLt(One, RMul(g.eta, g.sin_theta))
                    \/ RLt(draw, Schlick(g.cos_theta, g.eta))
    IN  [some |-> TRUE, albedo |-> ColorDefault, origin |-> hit.point,
         branch |-> IF reflects THEN "reflect" ELSE "refract",
         dir |-> IF reflects THEN Reflect(g.unit_dir, hit.normal)
                 ELSE Refract(g.unit_dir, hit.normal, g.eta),
         time |-> ray.time]

\* Incident directions (not all of unit length) and unit normals
IncidentDirs == {V(0, 0, -1), V(0, 0, -2), V(3, 0, -4), V(4, 0, -3), V(1, 0, 0), V(0, 6, -8)}
HitNormals == {V(0, 0, 1), V(0, 0, -1), V(1, 0, 0)}
\* Values of Vec3::rand_unit_sphere
SphereSamples == {V(0, 0, 1), V(0, 0, -1), V(1, 0, 0), <<Zero, Rat(3, 5), Rat(4, 5)>>}
\* Values of rng.gen::<f64>(), in [0, 1)
Draws == {Zero, Rat(1, 100), Rat(1, 25), Half, Rat(99, 100)}
FuzzArgs == {Zero, Half, One, R(2)}
RefIndices == {Rat(3, 2), Rat(4, 3)}
Albedos == {<<Rat(7, 10), Rat(3, 5), Half>>, <<Half, Half, Half>>}

\* The hit records a material can be handed: the normal is unit length and
\* does not point along the ray (Hit::ray).
MaterialQueries ==
    {q \in {[ray |-> Ray(V(0, 0, 0), d, Zero),
             hit |-> [hit |-> TRUE, point |-> V(0, 0, 0), normal |-> n, time |-> One,
                      front_face |-> ff, material |-> 1]] :
                d \in IncidentDirs, n \in HitNormals, ff \in BOOLEAN} :
        RLe(Dot(q.ray.dir, q.hit.normal), Zero)}

\* A Metal built by Metal::new, or a Dielectric, with the query it is handed
\* and the values the random stream will give
MetalInputs ==
    {[kind |-> "metal", ray |-> q.ray, hit |-> q.hit, fuzz |-> MetalNew(a, f).fuzz,
      albedo |-> MetalNew(a, f).albedo, sample |-> s] :
        q \in MaterialQueries, a \in Albedos, f \in FuzzArgs, s \in SphereSamples}
DielectricInputs ==
    {[kind |-> "dielectric", ray |-> q.ray, hit |-> q.hit, ref_index |-> ri, draw |-> d] :
        q \in MaterialQueries, ri \in RefIndices, d \in Draws}

InitMaterial ==
    /\ matIn \in MetalInputs \cup DielectricInputs
    /\ matOut = [done |-> FALSE]
    /\ hitIn = Idle /\ bvh = Idle /\ hitOut = Idle
    /\ builder = Idle /\ camera = Idle
    /\ screen = Idle /\ encoded = Idle
    /\ path = Idle /\ rc = Idle
    /\ cfg = Idle /\ rows = Idle /\ buffer = Idle /\ rows_done = Idle
    /\ progress = Idle
    /\ noise = Idle /\ call = Idle /\ ret = Idle
    /\ frames = Idle

\* Metal::scatter
ScatterMetal ==
    /\ matIn.kind = "metal"
    /\ ~matOut.done
    /\ matOut' = [done |-> TRUE,
                  scatter |-> MetalScatter([albedo |-> matIn.albedo, fuzz |-> matIn.fuzz],
                                           matIn.ray, matIn.hit, matIn.sample)]
    /\ UNCHANGED <<matIn, hitVars, camVars, encVars, pathVars, renderVars, noiseVars, callVars, buildVars>>

\* Dielectric::scatter
ScatterDielectric ==
    /\ matIn.kind = "dielectric"
    /\ ~matOut.done
    /\ matOut' = [done |-> TRUE,
                  scatter |-> DielectricScatter(matIn.ref_index, matIn.ray, matIn.hit,
                                                matIn.draw)]
    /\ UNCHANGED <<matIn, hitVars, camVars, encVars, pathVars, renderVars, noiseVars, callVars, buildVars>>

NextMaterial == ScatterMetal \/ ScatterDielectric
SpecMaterial == InitMaterial /\ [][NextMaterial]_vars

\* v - 2 (v . n) n
Mirror(v, n) == VSub(v, VScale(n, RMul(R(2), Dot(v, n))))

TotalInternalReflection ==
    LET g == DielectricAngles(matIn.ref_index, matIn.ray, matIn.hit)
    IN  RLt(One, RMul(g.eta, g.sin_theta))

\* C10: the attenuation is neutral; refract is called exactly when
\* ratio * sin(theta) <= 1 and the draw is not below the Schlick reflectance,
\* so never under total internal reflection, whatever the draw; the root
\* refract takes is then never of a negative number.
C10_DielectricBranches ==
    (matOut.done /\ matIn.kind = "dielectric") =>
        LET g == DielectricAngles(matIn.ref_index, matIn.ray, matIn.hit)
            out == matOut.scatter
        IN  /\ out.some
            /\ out.albedo = <<One, One, One>>
            /\ out.branch = "refract" <=>
                   (~TotalInternalReflection
                    /\ ~RLt(matIn.draw, Schlick(g.cos_theta, g.eta)))
            /\ TotalInternalReflection => out.branch = "reflect"
            /\ out.branch = "refract" => ~out.dir.nan
            /\ (g.cos_theta = One /\ RLt(g.eta, One)) => ~TotalInternalReflection
\* Total internal reflection with a draw that Schlick alone would refract.
C10_Witness ==
    /\ matOut.done
    /\ matIn.kind = "dielectric"
    /\ TotalInternalReflection
    /\ matIn.draw = Rat(99, 100)
    /\ matOut.scatter.branch = "reflect"
\* A refraction at normal incidence into the denser medium.
C10_WitnessRefract ==
    /\ matOut.done
    /\ matIn.kind = "dielectric"
    /\ matIn.hit.front_face
    /\ DielectricAngles(matIn.ref_index, matIn.ray, matIn.hit).cos_theta = One
    /\ matOut.scatter.branch = "refract"

(***************************************************************************)
(* ray_color: the iterative walk of one camera ray through the scene       *)
(***************************************************************************)

\* Largest max_ray_depth explored; the configuration holds a non-zero count
MaxDepth == 3

White == <<One, One, One>>
SkyBlue == <<Half, Rat(7, 10), One>>

\* The sky gradient for the direction the walk ends with
Sky(dir) ==
    LET unit_dir == Normalized(dir)
        t == RMul(Half, RAdd(unit_dir[2], One))
    IN  CAdd(CScale(White, RSub(One, t)), CScale(SkyBlue, t))

\* The sky for each direction a walk of the model can end with, computed once
SkyOf ==
    [dir \in {V(0, 1, 0), V(1, 0, 0), V(0, 3, 4), V(0, -1, 0)} |-> Sky(dir)]

\* The accumulator alone, the sky factor left out
RayColorNoSky(color, dir) == color
\* The value ray_color returns once its loop is left
RayColorReturn(color, dir) == CMul(SkyOf[dir], color)

\* A loop that never looks at its budget
BudgetNeverSpent(bounces) == FALSE
\* `bounces -= 1; if bounces == 0`
BudgetSpent(bounces) == bounces - 1 = 0

\* Directions of rational length for the camera ray
PathDirs == {V(0, 1, 0), V(1, 0, 0), V(0, 3, 4)}
\* DbgBlack::scatter for a ray along x: black, and the ray it was handed
DbgBlackScatter == [albedo |-> Black, dir |-> V(1, 0, 0)]
\* What a hit can scatter into: an attenuation and the scattered direction
PathScatters ==
    {[albedo |-> ColorDefault, dir |-> V(0, -1, 0)],
     [albedo |-> <<Half, Rat(4, 5), Rat(1, 5)>>, dir |-> V(0, 3, 4)],
     [albedo |-> <<Rat(1, 5), Half, Half>>, dir |-> V(1, 0, 0)],
     DbgBlackScatter}

\* The scenes' answers along one path: the scatters met in order, and
\* whether the ray after the last of them misses everything or is absorbed
RECURSIVE ScattersOf(_)
ScattersOf(n) ==
    IF n = 0 THEN {<< >>}
    ELSE LET shorter == ScattersOf(n - 1)
         IN  shorter \cup {Append(s, x) : s \in {t \in shorter : Len(t) = n - 1},
                                          x \in PathScatters}
Paths == [steps : ScattersOf(MaxDepth + 1), end : {"miss", "absorbed"}]

InitPath ==
    /\ path \in Paths
    /\ \E depth \in 1..MaxDepth, dir \in PathDirs :
           rc = [color |-> ColorDefault, dir |-> dir, bounces |-> depth,
                 max_ray_depth |-> depth, camera_dir |-> dir, scatters |-> 0,
                 pc |-> "loop", exit |-> "none", result |-> Black]
    /\ hitIn = Idle /\ bvh = Idle /\ hitOut = Idle
    /\ matIn = Idle /\ matOut = Idle
    /\ builder = Idle /\ camera = Idle
    /\ screen = Idle /\ encoded = Idle
    /\ cfg = Idle /\ rows = Idle /\ buffer = Idle /\ rows_done = Idle
    /\ progress = Idle
    /\ noise = Idle /\ call = Idle /\ ret = Idle
    /\ frames = Idle

\* The walks among surfaces that hand the ray back or turn it around
BounceScatters == {DbgBlackScatter, [albedo |-> ColorDefault, dir |-> V(0, -1, 0)]}
InitBounce ==
    /\ InitPath
    /\ \A k \in 1..Len(path.steps) : path.steps[k] \in BounceScatters

\* One iteration in which the world is hit and the material scatters
HitAndScatter ==
    /\ rc.pc = "loop"
    /\ rc.scatters < Len(path.steps)
    /\ LET scatter == path.steps[rc.scatters + 1]
           color == CMul(rc.color, scatter.albedo)
       IN  rc' = IF BudgetSpent(rc.bounces)
                 THEN [rc EXCEPT !.color = CScale(color, Zero), !.dir = scatter.dir,
                                 !.bounces = @ - 1, !.scatters = @ + 1,
                                 !.pc = "sky", !.exit = "budget"]
                 ELSE [rc EXCEPT !.color = color, !.dir = scatter.dir,
                                 !.bounces = @ - 1, !.scatters = @ + 1]
    /\ UNCHANGED <<path, hitVars, matVars, camVars, encVars, renderVars, noiseVars, callVars, buildVars>>

\* One iteration in which the world is hit and the material absorbs the ray
HitAndAbsorb ==
    /\ rc.pc = "loop"
    /\ rc.scatters = Len(path.steps) /\ path.end = "absorbed"
    /\ rc' = [rc EXCEPT !.color = CScale(@, Zero), !.pc = "sky", !.exit = "absorbed"]
    /\ UNCHANGED <<path, hitVars, matVars, camVars, encVars, renderVars, noiseVars, callVars, buildVars>>

\* world.hit returns None: the ray escapes the scene
Miss ==
    /\ rc.pc = "loop"
    /\ rc.scatters = Len(path.steps) /\ path.end = "miss"
    /\ rc' = [rc EXCEPT !.pc = "sky", !.exit = "miss"]
    /\ UNCHANGED <<path, hitVars, matVars, camVars, encVars, renderVars, noiseVars, callVars, buildVars>>

\* After the loop: the sky color for the current ray times the accumulator
ReturnColor ==
    /\ rc.pc = "sky"
    /\ rc' = [rc EXCEPT !.pc = "done", !.result = RayColorReturn(rc.color, rc.dir)]
    /\ UNCHANGED <<path, hitVars, matVars, camVars, encVars, renderVars, noiseVars, callVars, buildVars>>

NextPath == HitAndScatter \/ HitAndAbsorb \/ Miss \/ ReturnColor
SpecPath == InitPath /\ [][NextPath]_vars
\* ray_color is sequential code run by one thread: a step it can take is
\* taken
SpecBounce == InitBounce /\ [][NextPath]_vars /\ WF_vars(NextPath)

\* The product of the attenuations of the first n scatters of a path
RECURSIVE Product(_, _)
Product(steps, n) ==
    IF n = 0 THEN <<One, One, One>>
    ELSE CMul(Product(steps, n - 1), steps[n].albedo)

\* The direction of the ray that leaves the scene at the end of a path
EscapeDir == IF path.steps = << >> THEN rc.camera_dir
             ELSE path.steps[Len(path.steps)].dir

\* The gradient written out per component for a unit vertical component y
GradientAt(y) ==
    LET t == Rat(y[1] + y[2], 2 * y[2])
    IN  <<Rat((t[2] - t[1]) * 2 + t[1], 2 * t[2]),
          Rat((t[2] - t[1]) * 10 + 7 * t[1], 10 * t[2]),
          One>>

\* C3: a path whose ray escapes after k scatters, k <= max_ray_depth,
\* returns the sky color times the product of the k attenuations; only a
\* path that needs more than max_ray_depth scatters is zeroed by the budget
C3_EscapeWithinBudget ==
    /\ (rc.pc = "done" /\ path.end = "miss"
            /\ Len(path.steps) <= rc.max_ray_depth) =>
           rc.result = CMul(Sky(EscapeDir), Product(path.steps, Len(path.steps)))
    /\ rc.exit = "budget" => Len(path.steps) > rc.max_ray_depth

\* C4: a camera ray that hits nothing returns exactly the sky gradient for
\* its direction, multiplied by no attenuation
C4_MissReturnsSky ==
    (rc.pc = "done" /\ rc.exit = "miss" /\ path.steps = << >>) =>
        /\ rc.dir = rc.camera_dir
        /\ rc.result = GradientAt(Normalized(rc.camera_dir)[2])

C4_Witness ==
    /\ rc.pc = "done" /\ rc.exit = "miss" /\ path.steps = << >>
    /\ rc.camera_dir = V(0, 3, 4)
    /\ rc.result = <<Rat(3, 5), Rat(19, 25), One>>

(***************************************************************************)
(* Screen::encode: gamma correction and 0RGB packing of the final buffer   *)
(***************************************************************************)

\* Largest number of pixels of an encoded screen
MaxPixels == 3

\* The bounds test of one component: 0.0 <= x <= 1.0, false for NaN
InColorBounds(x) == XLe(Zero, x) /\ XLe(x, One)
ValidColor(p) == InColorBounds(p[1]) /\ InColorBounds(p[2]) /\ InColorBounds(p[3])

\* (255.99 * x.sqrt()) as u32, for x in bounds with a rational root
GammaByte(x) ==
    LET root == RSqrt(x)
    IN  (25599 * root[1]) \div (100 * root[2])

\* The word of one pixel, (r << 16) | (g << 8) | b on disjoint bytes
EncodePixel(p) ==
    GammaByte(p[1]) * 65536 + GammaByte(p[2]) * 256 + GammaByte(p[3])

\* min(max(x, 0), 1), with NaN taken as 0
ClampComponent(x) == IF IsNaN(x) THEN Zero ELSE XMin(XMax(x, Zero), One)
\* An encoder that clamps what is out of bounds instead of panicking
EncodeClamping(s) ==
    [panic |-> FALSE,
     words |-> [i \in 1..Len(s.buffer) |->
                   EncodePixel(<<ClampComponent(s.buffer[i][1]),
                                 ClampComponent(s.buffer[i][2]),
                                 ClampComponent(s.buffer[i][3])>>)]]
\* Screen::encode: the first invalid pixel panics; else one word per pixel
Encode(s) ==
    IF \E i \in 1..Len(s.buffer) : ~ValidColor(s.buffer[i])
    THEN [panic |-> TRUE]
    ELSE [panic |-> FALSE,
          words |-> [i \in 1..Len(s.buffer) |-> EncodePixel(s.buffer[i])]]

\* Pixels a buffer can hold: valid ones, and one with a NaN, a negative, an
\* above-one and an infinite component each
ScreenPixels ==
    {<<Zero, Zero, Zero>>, <<One, One, One>>, <<Rat(1, 4), Rat(4, 9), One>>,
     <<NaN, Rat(1, 4), One>>, <<Rat(1, 4), Rat(-1, 4), Zero>>, <<Zero, One, Rat(5, 4)>>,
     <<PInf, Zero, Zero>>}

\* Screen::new(width, height) with its buffer filled by the render
Screens ==
    UNION {[width : {w}, height : {h}, buffer : [1..(w * h) -> ScreenPixels]] :
               <<w, h>> \in {d \in (1..MaxPixels) \X (1..MaxPixels) :
                                 d[1] * d[2] <= MaxPixels}}

\* Before Screen::encode has run
NotEncoded == [pending |-> TRUE]

InitEncode ==
    /\ screen \in Screens
    /\ encoded = NotEncoded
    /\ hitIn = Idle /\ bvh = Idle /\ hitOut = Idle
    /\ matIn = Idle /\ matOut = Idle
    /\ builder = Idle /\ camera = Idle
    /\ path = Idle /\ rc = Idle
    /\ cfg = Idle /\ rows = Idle /\ buffer = Idle /\ rows_done = Idle
    /\ progress = Idle
    /\ noise = Idle /\ call = Idle /\ ret = Idle
    /\ frames = Idle

EncodeScreen ==
    /\ encoded = NotEncoded
    /\ encoded' = Encode(screen)
    /\ UNCHANGED <<screen, hitVars, matVars, camVars, pathVars, renderVars, noiseVars, callVars, buildVars>>

NextEncode == EncodeScreen
SpecEncode == InitEncode /\ [][NextEncode]_vars

\* C5: encode panics whenever a component of a pixel is outside [0,1] or
\* NaN; otherwise it returns width*height words, each with a zero top byte
\* and the red, green and blue channels, each <= 255, in bytes 2, 1 and 0
C5_EncodeFailsLoudly ==
    encoded # NotEncoded =>
        IF \A i \in 1..Len(screen.buffer) :
               \A c \in 1..3 : /\ ~IsNaN(screen.buffer[i][c])
                               /\ XLe(Zero, screen.buffer[i][c])
                               /\ XLe(screen.buffer[i][c], One)
        THEN /\ ~encoded.panic
             /\ Len(encoded.words) = screen.width * screen.height
             /\ \A i \in 1..Len(encoded.words) :
                    LET word == encoded.words[i]
                        r == (word \div 65536) % 256
                        g == (word \div 256) % 256
                        b == word % 256
                    IN  /\ word \div 16777216 = 0
                        /\ r = GammaByte(screen.buffer[i][1])
                        /\ g = GammaByte(screen.buffer[i][2])
                        /\ b = GammaByte(screen.buffer[i][3])
                        /\ r <= 255 /\ g <= 255 /\ b <= 255
        ELSE encoded = [panic |-> TRUE]

\* A buffer holding a pixel with a component above 1 has panicked
C5_Witness ==
    /\ encoded # NotEncoded
    /\ encoded.panic
    /\ \E i \in 1..Len(screen.buffer) : screen.buffer[i] = <<Zero, One, Rat(5, 4)>>

\* A valid buffer has been packed: (1/4, 4/9, 1) becomes 0x7FAAFF
C5_WitnessPacked ==
    /\ encoded # NotEncoded
    /\ ~encoded.panic
    /\ screen.width = 1 /\ screen.height = 2
    /\ encoded.words = <<127 * 65536 + 170 * 256 + 255, 0>>

(***************************************************************************)
(* CameraBuilder: the setters, verify and build                            *)
(***************************************************************************)

None == [some |-> FALSE]
Some(x) == [some |-> TRUE, v |-> x]

\* CameraBuilder::default(), for a 2:1 screen
BuilderDefault ==
    [origin |-> None, look_at |-> None, view_up |-> V(0, 1, 0),
     vfov_degrees |-> R(60), aspect_ratio |-> R(2), aperture |-> Zero,
     focus_dist |-> None, shutter_time |-> None]

\* CameraBuilder::verify: "ok", or the first complaint it raises
Verify(b) ==
    IF ~b.origin.some THEN "origin wasn't provided"
    ELSE IF ~b.look_at.some THEN "look_at wasn't provided"
    ELSE LET view_up == CheckedNormalized(b.view_up)
             w == CheckedNormalized(VSub(b.origin.v, b.look_at.v))
         IN  IF ~view_up.ok THEN "view_up has length 0"
             ELSE IF ~w.ok THEN "origin and look_at are the same"
             ELSE IF ~CheckedNormalized(Cross(view_up.v, w.v)).ok
                  THEN "look_at and view_up are parallel"
             ELSE IF ~XLe(Zero, b.aperture) THEN "aperture is less than 0"
             ELSE IF ~XLt(Zero, b.vfov_degrees) THEN "fov is less than or equal to 0"
             ELSE IF ~XLt(Zero, b.aspect_ratio)
                  THEN "aspect ratio is less than or equal to 0"
             ELSE IF b.focus_dist.some /\ ~XLt(Zero, b.focus_dist.v)
                  THEN "focus distance is less than or equal to 0"
             ELSE "ok"

\* Uniform::from(range) asserts range.start < range.end
UniformFrom(range) ==
    IF XLt(range.start, range.end) THEN [ok |-> TRUE, low |-> range.start, high |-> range.end]
    ELSE [ok |-> FALSE]

\* CameraBuilder::build.  The viewport vectors, which scale the basis by
\* focus_dist * tan(vfov / 2), are left out; the basis and the rest are kept.
Build(b) ==
    LET verdict == Verify(b)
    IN  IF verdict # "ok" THEN [built |-> TRUE, kind |-> "err", error |-> verdict]
        ELSE IF b.shutter_time.some /\ ~UniformFrom(b.shutter_time.v).ok
        THEN [built |-> TRUE, kind |-> "panic"]
        ELSE LET origin == b.origin.v
                 look_at == b.look_at.v
                 view_up == CheckedNormalized(b.view_up).v
                 w == CheckedNormalized(VSub(origin, look_at)).v
                 u == CheckedNormalized(Cross(view_up, w)).v
             IN  [built |-> TRUE, kind |-> "ok",
                  origin |-> origin,
                  lens_radius |-> RDiv(b.aperture, R(2)),
                  focus_dist |-> IF b.focus_dist.some THEN b.focus_dist.v
                                 ELSE Norm(VSub(origin, look_at)),
                  shutter_time |-> IF b.shutter_time.some
                                   THEN Some(UniformFrom(b.shutter_time.v))
                                   ELSE None,
                  u |-> u, v |-> Cross(w, u), w |-> w]

\* Arguments the setters are called with
\* (pairwise at rational distances)
CameraPoints == {V(0, 0, 0), V(3, 0, 0), V(0, 4, 0)}
ViewUps == {V(0, 1, 0), V(0, 0, 2), V(0, 0, 0)}
Fovs == {R(60), Zero, R(-1)}
AspectRatios == {R(2), Zero}
Apertures == {Zero, One, R(-1)}
FocusDists == {None, Some(R(2)), Some(Zero)}
ShutterTimes == {None, Some([start |-> Zero, end |-> One]),
                 Some([start |-> One, end |-> Zero])}

NotBuilt == [built |-> FALSE]

InitCamera ==
    /\ builder = BuilderDefault
    /\ camera = NotBuilt
    /\ hitIn = Idle /\ bvh = Idle /\ hitOut = Idle
    /\ matIn = Idle /\ matOut = Idle
    /\ screen = Idle /\ encoded = Idle
    /\ path = Idle /\ rc = Idle
    /\ cfg = Idle /\ rows = Idle /\ buffer = Idle /\ rows_done = Idle
    /\ progress = Idle
    /\ noise = Idle /\ call = Idle /\ ret = Idle
    /\ frames = Idle

SetOrigin ==
    /\ camera = NotBuilt
    /\ \E origin \in CameraPoints : builder' = [builder EXCEPT !.origin = Some(origin)]
    /\ UNCHANGED <<camera, hitVars, matVars, encVars, pathVars, renderVars, noiseVars, callVars, buildVars>>

SetLookAt ==
    /\ camera = NotBuilt
    /\ \E look_at \in CameraPoints : builder' = [builder EXCEPT !.look_at = Some(look_at)]
    /\ UNCHANGED <<camera, hitVars, matVars, encVars, pathVars, renderVars, noiseVars, callVars, buildVars>>

SetViewUp ==
    /\ camera = NotBuilt
    /\ \E view_up \in ViewUps : builder' = [builder EXCEPT !.view_up = view_up]
    /\ UNCHANGED <<camera, hitVars, matVars, encVars, pathVars, renderVars, noiseVars, callVars, buildVars>>

SetVfovDegrees ==
    /\ camera = NotBuilt
    /\ \E vfov \in Fovs : builder' = [builder EXCEPT !.vfov_degrees = vfov]
    /\ UNCHANGED <<camera, hitVars, matVars, encVars, pathVars, renderVars, noiseVars, callVars, buildVars>>

SetAspectRatio ==
    /\ camera = NotBuilt
    /\ \E aspect_ratio \in AspectRatios :
           builder' = [builder EXCEPT !.aspect_ratio = aspect_ratio]
    /\ UNCHANGED <<camera, hitVars, matVars, encVars, pathVars, renderVars, noiseVars, callVars, buildVars>>

SetAperture ==
    /\ camera = NotBuilt
    /\ \E aperture \in Apertures : builder' = [builder EXCEPT !.aperture = aperture]
    /\ UNCHANGED <<camera, hitVars, matVars, encVars, pathVars, renderVars, noiseVars, callVars, buildVars>>

SetFocusDist ==
    /\ camera = NotBuilt
    /\ \E dist \in FocusDists : builder' = [builder EXCEPT !.focus_dist = dist]
    /\ UNCHANGED <<camera, hitVars, matVars, encVars, pathVars, renderVars, noiseVars, callVars, buildVars>>

SetShutterTime ==
    /\ camera = NotBuilt
    /\ \E range \in ShutterTimes : builder' = [builder EXCEPT !.shutter_time = range]
    /\ UNCHANGED <<camera, hitVars, matVars, encVars, pathVars, renderVars, noiseVars, callVars, buildVars>>

\* .build() ends the chain of setters
BuildCamera ==
    /\ camera = NotBuilt
    /\ camera' = Build(builder)
    /\ UNCHANGED <<builder, hitVars, matVars, encVars, pathVars, renderVars, noiseVars, callVars, buildVars>>

NextCamera ==
    \/ SetOrigin \/ SetLookAt \/ SetViewUp \/ SetVfovDegrees \/ SetAspectRatio
    \/ SetAperture \/ SetFocusDist \/ SetShutterTime \/ BuildCamera
SpecCamera == InitCamera /\ [][NextCamera]_vars

\* The conditions under which build is to refuse the configuration
Refused(b) ==
    \/ ~b.origin.some
    \/ ~b.look_at.some
    \/ b.origin.v = b.look_at.v
    \/ NormSquared(b.view_up) = Zero
    \/ Cross(b.view_up, VSub(b.origin.v, b.look_at.v)) = V(0, 0, 0)
    \/ RLe(b.vfov_degrees, Zero)
    \/ RLe(b.aspect_ratio, Zero)
    \/ RLt(b.aperture, Zero)
    \/ (b.focus_dist.some /\ RLe(b.focus_dist.v, Zero))

\* C6: build returns an error and no Camera whenever origin or look_at is
\* unset, origin equals look_at, view_up has zero length or is parallel to
\* the view direction, vfov <= 0, aspect ratio <= 0, aperture < 0 or a given
\* focus distance is <= 0, and returns a Camera when none of these holds
C6_BuildVerifies ==
    camera.built =>
        IF Refused(builder) THEN camera.kind = "err" ELSE camera.kind = "ok"

\* The refusals alone: every listed condition makes build return an error
C6_RefusalsReturnErr ==
    (camera.built /\ Refused(builder)) => camera.kind = "err"

(***************************************************************************)
(* main: the row-parallel pass over the screen and the progress thread     *)
(***************************************************************************)

\* Bounds of the renders explored
MaxWidth == 2
MaxHeight == 3
MaxWorkers == 2
\* Width of the seed arithmetic, scaled down from 64 bits
SeedBits == 3

SeedModulus == 2 ^ SeedBits
\* seed.wrapping_add(1).wrapping_mul(y as u64)
RowSeed(seed, y) == (((seed + 1) % SeedModulus) * y) % SeedModulus

\* SmallRng, abstracted to a 4-bit generator: seeding and one draw.  A draw
\* returns the value drawn and the generator's next state.
SeedFromU64(seed) == (7 * seed + 1) % 16
Gen(state) == [value |-> state, rng |-> (5 * state + 3) % 16]

\* One sample of pixel (x, y): the jitter draws when antialiasing is on, the
\* draws of Camera::get_ray (lens, shutter) and of ray_color, whose number
\* depends on what was drawn.  The scene and the camera are read only, so
\* the sample is a function of x, y, the configuration and the row's rng.
Sample(config, x, y, rng) ==
    LET i == IF config.antialias THEN Gen(rng) ELSE [value |-> 0, rng |-> rng]
        j == IF config.antialias THEN Gen(i.rng) ELSE [value |-> 0, rng |-> rng]
        lens == Gen(j.rng)
        walk == IF lens.value % 2 = 0 THEN Gen(lens.rng) ELSE Gen(Gen(lens.rng).rng)
    IN  [value |-> (3 * x + 5 * y + i.value + 2 * j.value + lens.value
                        + 7 * walk.value) % 16,
         rng |-> walk.rng]

\* The pixel's samples_per_pixel samples: their sum and the rng afterwards
RECURSIVE Samples(_, _, _, _, _)
Samples(config, x, y, rng, n) ==
    IF n = 0 THEN [value |-> 0, rng |-> rng]
    ELSE LET before == Samples(config, x, y, rng, n - 1)
             sample == Sample(config, x, y, before.rng)
         IN  [value |-> before.value + sample.value, rng |-> sample.rng]

\* avg /= samples_per_pixel
PixelColor(config, x, y, rng) ==
    LET sum == Samples(config, x, y, rng, config.samples_per_pixel)
    IN  [value |-> <<sum.value, config.samples_per_pixel>>, rng |-> sum.rng]

\* par_chunks_exact_mut(width): row y is the y-th chunk of the flat buffer
PixelIndex(config, y, x) == y * config.width + x + 1

\* Every row draws from one shared generator
RowRngShared(y) == 0
\* The generator row y draws from: a local of the row's closure
RowRng(y) == y

RunSeeds == {0, 1, SeedModulus - 1}
SamplesPerPixel == {1, 2}
Configs ==
    [seed : RunSeeds, width : 1..MaxWidth, height : 1..MaxHeight,
     workers : 1..MaxWorkers, antialias : BOOLEAN,
     samples_per_pixel : SamplesPerPixel]

\* Color::default(), what Screen::new fills the buffer with
Unwritten == <<1, 1>>

RowsOf(config) == 0..(config.height - 1)
Running == {y \in RowsOf(cfg) : rows.pc[y] = "run"}

InitRender ==
    /\ cfg \in Configs
    /\ rows = [pc |-> [y \in RowsOf(cfg) |-> "idle"],
               x |-> [y \in RowsOf(cfg) |-> 0],
               rng |-> [y \in RowsOf(cfg) |-> 0]]
    /\ buffer = [k \in 1..(cfg.width * cfg.height) |-> Unwritten]
    /\ rows_done = 0
    /\ progress = [pc |-> "poll", rows |-> 0]
    /\ noise = Idle /\ call = Idle /\ ret = Idle
    /\ frames = Idle
    /\ hitIn = Idle /\ bvh = Idle /\ hitOut = Idle
    /\ matIn = Idle /\ matOut = Idle
    /\ builder = Idle /\ camera = Idle
    /\ screen = Idle /\ encoded = Idle
    /\ path = Idle /\ rc = Idle

\* A free worker takes row y and seeds the row's generator
StartRow ==
    /\ Cardinality(Running) < cfg.workers
    /\ \E y \in RowsOf(cfg) :
           /\ rows.pc[y] = "idle"
           /\ rows' = [rows EXCEPT !.pc[y] = "run",
                                   !.rng[RowRng(y)] = SeedFromU64(RowSeed(cfg.seed, y))]
    /\ UNCHANGED <<cfg, buffer, rows_done, progress,
                   hitVars, matVars, camVars, encVars, pathVars,
                   noiseVars, callVars, buildVars>>

\* The worker of row y computes and stores the row's next pixel
RenderPixel ==
    /\ \E y \in RowsOf(cfg) :
           /\ rows.pc[y] = "run"
           /\ rows.x[y] < cfg.width
           /\ LET pix == PixelColor(cfg, rows.x[y], y, rows.rng[RowRng(y)])
              IN  /\ buffer' = [buffer EXCEPT ![PixelIndex(cfg, y, rows.x[y])] = pix.value]
                  /\ rows' = [rows EXCEPT !.x[y] = @ + 1, !.rng[RowRng(y)] = pix.rng]
    /\ UNCHANGED <<cfg, rows_done, progress,
                   hitVars, matVars, camVars, encVars, pathVars,
                   noiseVars, callVars, buildVars>>

\* A row closure that adds to the counter before its pixels are written
FinishRowEarly ==
    /\ \E y \in RowsOf(cfg) :
           /\ rows.pc[y] = "run"
           /\ rows.x[y] <= cfg.width
           /\ rows' = [rows EXCEPT !.pc[y] = "done"]
    /\ rows_done' = rows_done + 1
    /\ UNCHANGED <<cfg, buffer, progress,
                   hitVars, matVars, camVars, encVars, pathVars,
                   noiseVars, callVars, buildVars>>

\* counter.fetch_add(1) after the row's last pixel
FinishRow ==
    /\ \E y \in RowsOf(cfg) :
           /\ rows.pc[y] = "run"
           /\ rows.x[y] = cfg.width
           /\ rows' = [rows EXCEPT !.pc[y] = "done"]
    /\ rows_done' = rows_done + 1
    /\ UNCHANGED <<cfg, buffer, progress,
                   hitVars, matVars, camVars, encVars, pathVars,
                   noiseVars, callVars, buildVars>>

\* A progress thread that exits one row early
PollProgressEarly ==
    /\ progress.pc = "poll"
    /\ progress' = [pc |-> IF rows_done + 1 >= cfg.height THEN "exited" ELSE "poll",
                    rows |-> rows_done]
    /\ UNCHANGED <<cfg, rows, buffer, rows_done,
                   hitVars, matVars, camVars, encVars, pathVars,
                   noiseVars, callVars, buildVars>>

\* The progress thread loads the counter, prints, and exits on the last row
PollProgress ==
    /\ progress.pc = "poll"
    /\ progress' = [pc |-> IF rows_done = cfg.height THEN "exited" ELSE "poll",
                    rows |-> rows_done]
    /\ UNCHANGED <<cfg, rows, buffer, rows_done,
                   hitVars, matVars, camVars, encVars, pathVars,
                   noiseVars, callVars, buildVars>>

NextRender == StartRow \/ RenderPixel \/ FinishRow \/ PollProgress
SpecRender == InitRender /\ [][NextRender]_vars
\* The progress thread is an OS thread that sleeps and polls in a loop: it
\* is scheduled again as long as it has not exited
SpecProgress == InitRender /\ [][NextRender]_vars /\ WF_vars(PollProgress)

\* The pixels of row y up to column x, computed alone from the row's seed:
\* the colors so far and the generator after them
RECURSIVE RowAlone(_, _, _)
RowAlone(config, y, x) ==
    IF x = 0 THEN [colors |-> << >>, rng |-> SeedFromU64(RowSeed(config.seed, y))]
    ELSE LET before == RowAlone(config, y, x - 1)
             pix == PixelColor(config, x - 1, y, before.rng)
         IN  [colors |-> Append(before.colors, pix.value), rng |-> pix.rng]

\* The buffer of a render that does its rows one after the other
OneWorkerBuffer(config) ==
    [k \in 1..(config.width * config.height) |->
        RowAlone(config, (k - 1) \div config.width, config.width)
            .colors[((k - 1) % config.width) + 1]]

AllRowsDone == \A y \in RowsOf(cfg) : rows.pc[y] = "done"

\* C1: for a fixed scene, camera, configuration and run seed the rendered
\* buffer is the same for every interleaving of the rows and every number
\* of workers: each row's pixels depend only on the seed, the row index and
\* the configuration
C1_RenderDeterministic ==
    /\ AllRowsDone => buffer = OneWorkerBuffer([cfg EXCEPT !.workers = 1])
    /\ \A y \in RowsOf(cfg) :
           rows.pc[y] # "idle" =>
               \A x \in 0..(rows.x[y] - 1) :
                   buffer[PixelIndex(cfg, y, x)] = RowAlone(cfg, y, rows.x[y]).colors[x + 1]

\* A two-worker render of a 2x2 screen has finished, its rows differing
C1_Witness ==
    /\ AllRowsDone
    /\ cfg.workers = 2 /\ cfg.height = 2 /\ cfg.width = 2 /\ cfg.antialias
    /\ buffer[1] # buffer[3]

\* Two rows are in progress at once, each with one pixel written
C1_WitnessInterleaved ==
    /\ cfg.workers = 2 /\ cfg.width = 2 /\ cfg.height = 2
    /\ rows.pc[0] = "run" /\ rows.pc[1] = "run"
    /\ rows.x[0] = 1 /\ rows.x[1] = 1

\* ---------------------------------------------------------------------
\* The permutation tables of ValueNoise and PerlinNoise (material.rs)
\* ---------------------------------------------------------------------

\* SIZE, scaled down from 256: the tables hold 2 * NoiseSize entries
NoiseSize == 4

NoiseKinds == {"value", "perlin"}

\* perms[k] of the code is Perms[k + 1] here
PermsZeroed == [k \in 1..(2 * NoiseSize) |-> 0]

\* perms.swap(i, j)
Swap(perms, i, j) ==
    [perms EXCEPT ![i + 1] = perms[j + 1], ![j + 1] = perms[i + 1]]

\* One iteration of the shuffle loop with the index j drawn for it
ShuffleIteration(perms, i, j) ==
    LET swapped == Swap(perms, i, j)
    IN  [swapped EXCEPT ![i + NoiseSize + 1] = swapped[i + 1]]

InitNoise ==
    /\ noise \in [kind : NoiseKinds, perms : {PermsZeroed}, i : {0}, pc : {"fill"}]
    /\ hitIn = Idle /\ bvh = Idle /\ hitOut = Idle
    /\ matIn = Idle /\ matOut = Idle
    /\ builder = Idle /\ camera = Idle
    /\ screen = Idle /\ encoded = Idle
    /\ path = Idle /\ rc = Idle
    /\ cfg = Idle /\ rows = Idle /\ buffer = Idle /\ rows_done = Idle
    /\ progress = Idle
    /\ call = Idle /\ ret = Idle
    /\ frames = Idle

\* The first loop: perms[i] = i for the lower half
FillTable ==
    /\ noise.pc = "fill"
    /\ noise' = [noise EXCEPT
                   !.perms = [k \in 1..(2 * NoiseSize) |->
                                 IF k <= NoiseSize THEN k - 1 ELSE 0],
                   !.pc = "shuffle"]
    /\ UNCHANGED <<hitVars, matVars, camVars, encVars, pathVars, renderVars, callVars,
                   buildVars>>

\* One iteration of the second loop: draw j, swap, copy into the upper half
ShuffleStep ==
    /\ noise.pc = "shuffle"
    /\ noise.i < NoiseSize
    /\ \E j \in 0..(NoiseSize - 1) :
           noise' = [noise EXCEPT
                       !.perms = ShuffleIteration(noise.perms, noise.i, j),
                       !.i = noise.i + 1]
    /\ UNCHANGED <<hitVars, matVars, camVars, encVars, pathVars, renderVars, callVars,
                   buildVars>>

\* The loop is over and the table is moved into the noise struct
FinishTable ==
    /\ noise.pc = "shuffle"
    /\ noise.i = NoiseSize
    /\ noise' = [noise EXCEPT !.pc = "done"]
    /\ UNCHANGED <<hitVars, matVars, camVars, encVars, pathVars, renderVars, callVars,
                   buildVars>>

NextNoise == FillTable \/ ShuffleStep \/ FinishTable
SpecNoise == InitNoise /\ [][NextNoise]_vars

LowerIsPermutation ==
    {noise.perms[k] : k \in 1..NoiseSize} = 0..(NoiseSize - 1)

UpperMirrorsLower ==
    \A i \in 0..(NoiseSize - 1) : noise.perms[i + NoiseSize + 1] = noise.perms[i + 1]

\* C11: after ValueNoise::new and PerlinNoise::new, whatever the generator
\* drew, the lower half of perms is a permutation of 0..SIZE-1 and the
\* upper half repeats it: perms[i + SIZE] = perms[i] for every i
C11_PermsDoubled ==
    noise.pc = "done" => LowerIsPermutation /\ UpperMirrorsLower

\* ---------------------------------------------------------------------
\* The layered noise adapters fBm and turbulence (material.rs)
\* ---------------------------------------------------------------------

\* The width of the f64 significand, scaled down from 53 bits: the adapters
\* round after every operation, and the rounding is what the normalisation
\* by the geometric-series maximum has to survive
MantissaBits == 4
MaxLayers == 3

\* x / 2^e as an unreduced quotient
Scaled(x, e) ==
    IF e >= 0 THEN <<x[1], x[2] * (2 ^ e)>> ELSE <<x[1] * (2 ^ (-e)), x[2]>>

\* The binary exponent e of a positive x: 2^(bits-1) <= x / 2^e < 2^bits
Exponent(x) ==
    CHOOSE e \in (-16)..16 :
        LET s == Scaled(x, e)
        IN  /\ (2 ^ (MantissaBits - 1)) * s[2] <= s[1]
            /\ s[1] < (2 ^ MantissaBits) * s[2]

\* Round a non-negative quotient to the nearest integer, ties to even
RoundEven(s) ==
    LET m == s[1] \div s[2]
        twice == 2 * (s[1] % s[2])
    IN  IF twice > s[2] \/ (twice = s[2] /\ m % 2 = 1) THEN m + 1 ELSE m

\* The floating-point value nearest to the exact result x
Fl(x) ==
    IF x[1] = 0 THEN Zero
    ELSE LET a == <<Abs(x[1]), x[2]>>
             e == Exponent(a)
             m == RoundEven(Scaled(a, e))
             sign == IF x[1] < 0 THEN -1 ELSE 1
         IN  IF e >= 0 THEN Rat(sign * m * (2 ^ e), 1) ELSE Rat(sign * m, 2 ^ (-e))

FAdd(a, b) == Fl(RAdd(a, b))
FSub(a, b) == Fl(RSub(a, b))
FMul(a, b) == Fl(RMul(a, b))
FDiv(a, b) == Fl(RDiv(a, b))

\* f64::powi(n) for n >= 1: square and multiply, rounding every product
RECURSIVE Powi(_, _, _)
Powi(a, b, r) ==
    LET r1 == IF b % 2 = 1 THEN FMul(r, a) ELSE r
    IN  IF b \div 2 = 0 THEN r1 ELSE Powi(FMul(a, a), b \div 2, r1)

\* Any base noise with values in [0, 1]: a field over the lattice, read at
\* the x coordinate of the query point
NoiseLevels == {Zero, Half, One}
NoiseFields == [0..2 -> NoiseLevels]
BaseNoise(field, p) == field[p[1] % 3]

\* The geometric-series maximum both adapters divide by
SeriesMax(gain, layers) ==
    FDiv(FSub(One, Powi(gain, layers, One)), FSub(One, gain))

\* The body of the fBm callback after n layers: [sum, amplitude, p]
RECURSIVE FBmLoop(_, _, _, _, _)
FBmLoop(field, lacunarity, gain, p, n) ==
    IF n = 0 THEN [sum |-> Zero, amplitude |-> One, p |-> p]
    ELSE LET s == FBmLoop(field, lacunarity, gain, p, n - 1)
         IN  [sum |-> FAdd(s.sum, FMul(BaseNoise(field, s.p), s.amplitude)),
              amplitude |-> FMul(s.amplitude, gain),
              p |-> FMul(s.p, lacunarity)]

\* The body of the turbulence callback after n layers
RECURSIVE TurbulenceLoop(_, _, _, _, _)
TurbulenceLoop(field, lacunarity, gain, p, n) ==
    IF n = 0 THEN [sum |-> Zero, amplitude |-> One, p |-> p]
    ELSE LET s == TurbulenceLoop(field, lacunarity, gain, p, n - 1)
             layer == FSub(FMul(R(2), BaseNoise(field, s.p)), One)
             magnitude == <<Abs(layer[1]), layer[2]>>
         IN  [sum |-> FAdd(s.sum, FMul(magnitude, s.amplitude)),
              amplitude |-> FMul(s.amplitude, gain),
              p |-> FMul(s.p, lacunarity)]

AdapterPanics(gain, layers) ==
    layers = 0 \/ ~(RLt(Zero, gain) /\ RLt(gain, One))

\* The value of a noise made by fBm at the query point
FBm(c) ==
    IF AdapterPanics(c.gain, c.layers) THEN [kind |-> "panic"]
    ELSE [kind |-> "value",
          value |-> FDiv(FBmLoop(c.field, c.lacunarity, c.gain, c.p, c.layers).sum,
                         SeriesMax(c.gain, c.layers))]

\* The value of a noise made by turbulence at the query point
Turbulence(c) ==
    IF AdapterPanics(c.gain, c.layers) THEN [kind |-> "panic"]
    ELSE [kind |-> "value",
          value |-> FDiv(TurbulenceLoop(c.field, c.lacunarity, c.gain, c.p, c.layers).sum,
                         SeriesMax(c.gain, c.layers))]

Gains == {Rat(3, 16), Half, Rat(13, 16), One}
Lacunarities == {One, R(2)}
FractalCalls ==
    [fn : {"fBm", "turbulence"}, field : NoiseFields, lacunarity : Lacunarities,
     gain : Gains, layers : 0..MaxLayers, p : {One}]

NotCalled == [kind |-> "pending"]

InitFractal ==
    /\ call \in FractalCalls
    /\ ret = NotCalled
    /\ hitIn = Idle /\ bvh = Idle /\ hitOut = Idle
    /\ matIn = Idle /\ matOut = Idle
    /\ builder = Idle /\ camera = Idle
    /\ screen = Idle /\ encoded = Idle
    /\ path = Idle /\ rc = Idle
    /\ cfg = Idle /\ rows = Idle /\ buffer = Idle /\ rows_done = Idle
    /\ progress = Idle
    /\ noise = Idle
    /\ frames = Idle

EvalFBm ==
    /\ ret = NotCalled
    /\ call.fn = "fBm"
    /\ ret' = FBm(call)
    /\ UNCHANGED <<call, hitVars, matVars, camVars, encVars, pathVars, renderVars, noiseVars,
                   buildVars>>

EvalTurbulence ==
    /\ ret = NotCalled
    /\ call.fn = "turbulence"
    /\ ret' = Turbulence(call)
    /\ UNCHANGED <<call, hitVars, matVars, camVars, encVars, pathVars, renderVars, noiseVars,
                   buildVars>>

NextFractal == EvalFBm \/ EvalTurbulence
SpecFractal == InitFractal /\ [][NextFractal]_vars

\* C12: for every lacunarity, every gain in (0, 1) and every layers >= 1
\* the value of a noise wrapped with fBm or turbulence lies in [0, 1],
\* given a base noise with values in [0, 1]
C12_FractalInUnitRange ==
    ret.kind = "value" => RLe(Zero, ret.value) /\ RLe(ret.value, One)

\* ---------------------------------------------------------------------
\* Vec3::normalized and Vec3::checked_normalized as calls (vec3.rs)
\* ---------------------------------------------------------------------

MaxCoord == 3

\* The vectors with coordinates up to MaxCoord whose norm is rational
NormVecs ==
    {v \in {V(x, y, z) : x \in (-MaxCoord)..MaxCoord, y \in (-MaxCoord)..MaxCoord,
                         z \in (-MaxCoord)..MaxCoord} :
        RIsSquare(NormSquared(v))}

InitVec ==
    /\ call \in [fn : {"normalized", "checked_normalized"}, v : NormVecs,
                 debug_assertions : BOOLEAN]
    /\ ret = NotCalled
    /\ hitIn = Idle /\ bvh = Idle /\ hitOut = Idle
    /\ matIn = Idle /\ matOut = Idle
    /\ builder = Idle /\ camera = Idle
    /\ screen = Idle /\ encoded = Idle
    /\ path = Idle /\ rc = Idle
    /\ cfg = Idle /\ rows = Idle /\ buffer = Idle /\ rows_done = Idle
    /\ progress = Idle
    /\ noise = Idle
    /\ frames = Idle

CallNormalized ==
    /\ ret = NotCalled
    /\ call.fn = "normalized"
    /\ ret' = NormalizedCall(call.v, call.debug_assertions)
    /\ UNCHANGED <<call, hitVars, matVars, camVars, encVars, pathVars, renderVars, noiseVars,
                   buildVars>>

CallCheckedNormalized ==
    /\ ret = NotCalled
    /\ call.fn = "checked_normalized"
    /\ ret' = LET r == CheckedNormalized(call.v)
              IN  IF r.ok THEN [kind |-> "ok", v |-> r.v]
                  ELSE [kind |-> "err", msg |-> "Tried to normalize vector of length 0!"]
    /\ UNCHANGED <<call, hitVars, matVars, camVars, encVars, pathVars, renderVars, noiseVars,
                   buildVars>>

NextVec == CallNormalized \/ CallCheckedNormalized
SpecVec == InitVec /\ [][NextVec]_vars

\* checked_normalized: Err exactly when the norm is 0, otherwise v / |v|
CheckedPathExact ==
    (call.fn = "checked_normalized" /\ ret.kind # "pending") =>
        /\ ret.kind = "err" <=> Norm(call.v) = Zero
        /\ ret.kind = "ok" =>
               /\ VScale(ret.v, Norm(call.v)) = call.v
               /\ NormSquared(ret.v) = One

NormalizedZeroReturned ==
    call.fn = "normalized" /\ call.v = V(0, 0, 0) /\ ret.kind # "pending"

\* C13 as stated: checked_normalized returns an error exactly when the
\* norm is 0 and otherwise v / |v|, and normalized of the zero vector traps
\* instead of returning a value
C13_ZeroTraps ==
    /\ CheckedPathExact
    /\ NormalizedZeroReturned => ret.kind = "panic"

\* C13 amended: the same, except that normalized of the zero vector traps
\* only in a build with debug assertions; without them it returns the
\* vector whose components are all NaN
C13_ZeroTrapsInDebug ==
    /\ CheckedPathExact
    /\ NormalizedZeroReturned =>
           IF call.debug_assertions THEN ret.kind = "panic"
           ELSE ret.kind = "value" /\ ret.v = <<NaN, NaN, NaN>>

\* normalized of the zero vector has returned NaNs in a build without
\* debug assertions
C13_Witness ==
    /\ NormalizedZeroReturned
    /\ ~call.debug_assertions
    /\ ret.kind = "value"

\* checked_normalized has refused the zero vector
C13_WitnessChecked ==
    /\ call.fn = "checked_normalized" /\ call.v = V(0, 0, 0)
    /\ ret.kind = "err"

\* ---------------------------------------------------------------------
\* Parsing a scene name (config.rs)
\* ---------------------------------------------------------------------

\* A &str is a sequence of characters; Scene::VARIANTS in declaration order.
\* A Scene value is its position in the enum.
SceneVariants ==
    <<<<"R", "a", "n", "d", "o", "m">>,
      <<"T", "w", "o", "S", "p", "h", "e", "r", "e", "s">>,
      <<"B", "a", "l", "l", "s">>,
      <<"B", "i", "r", "d", "s", "E", "y", "e", "V", "i", "e", "w">>,
      <<"V", "a", "l", "u", "e", "N", "o", "i", "s", "e", "1">>,
      <<"V", "a", "l", "u", "e", "N", "o", "i", "s", "e", "2">>,
      <<"V", "a", "l", "u", "e", "N", "o", "i", "s", "e", "P", "i", "n", "k">>,
      <<"V", "a", "l", "u", "e", "T", "u", "r", "b", "u", "l", "e", "n", "c", "e">>,
      <<"V", "a", "l", "u", "e", "M", "a", "r", "b", "l", "e", "d">>,
      <<"P", "e", "r", "l", "i", "n", "N", "o", "i", "s", "e", "1">>,
      <<"P", "e", "r", "l", "i", "n", "N", "o", "i", "s", "e", "2">>,
      <<"P", "e", "r", "l", "i", "n", "N", "o", "i", "s", "e", "P", "i", "n", "k">>,
      <<"P", "e", "r", "l", "i", "n", "T", "u", "r", "b", "u", "l", "e", "n", "c", "e">>,
      <<"P", "e", "r", "l", "i", "n", "M", "a", "r", "b", "l", "e", "d">>>>

UpperCase ==
    <<"A", "B", "C", "D", "E", "F", "G", "H", "I", "J", "K", "L", "M", "N", "O", "P", "Q", "R", "S", "T", "U", "V", "W", "X", "Y", "Z">>
LowerCase ==
    <<"a", "b", "c", "d", "e", "f", "g", "h", "i", "j", "k", "l", "m", "n", "o", "p", "q", "r", "s", "t", "u", "v", "w", "x", "y", "z">>

ToLower(c) ==
    IF \E k \in 1..26 : UpperCase[k] = c
    THEN LowerCase[CHOOSE k \in 1..26 : UpperCase[k] = c] ELSE c
ToUpper(c) ==
    IF \E k \in 1..26 : LowerCase[k] = c
    THEN UpperCase[CHOOSE k \in 1..26 : LowerCase[k] = c] ELSE c
LowerAll(s) == [k \in 1..Len(s) |-> ToLower(s[k])]
UpperAll(s) == [k \in 1..Len(s) |-> ToUpper(s[k])]

\* A derived FromStr that ignores ASCII case
SceneFromStrIgnoreCase(s) ==
    IF \E i \in 1..Len(SceneVariants) : LowerAll(SceneVariants[i]) = LowerAll(s)
    THEN [ok |-> TRUE,
          scene |-> CHOOSE i \in 1..Len(SceneVariants) :
                        LowerAll(SceneVariants[i]) = LowerAll(s)]
    ELSE [ok |-> FALSE]
\* <Scene as FromStr>::from_str as derived by EnumString: a match on the
\* variant names
SceneFromStr(s) ==
    IF \E i \in 1..Len(SceneVariants) : SceneVariants[i] = s
    THEN [ok |-> TRUE, scene |-> CHOOSE i \in 1..Len(SceneVariants) : SceneVariants[i] = s]
    ELSE [ok |-> FALSE]

\* parse_scene: the parse error is replaced by a message quoting the input
ParseScene(s) ==
    LET parsed == SceneFromStr(s)
    IN  IF parsed.ok THEN [kind |-> "ok", scene |-> parsed.scene]
        ELSE [kind |-> "err", quoted |-> s]

\* The spellings parse_test::wrong_case tries
WrongCase ==
    {<<"r", "a", "n", "d", "o", "m">>,
     <<"r", "A", "N", "D", "O", "M">>,
     <<"t", "w", "o", "s", "p", "h", "e", "r", "e", "s">>,
     <<"t", "w", "o", "-", "s", "p", "h", "e", "r", "e", "s">>,
     <<"t", "w", "o", "_", "s", "p", "h", "e", "r", "e", "s">>,
     <<"T", "w", "o", "_", "s", "p", "h", "e", "r", "e", "s">>}

\* Every variant name as written, in lower and upper case, with a character
\* added or dropped, and the spellings the tests try
SceneArgs ==
    WrongCase \cup {<< >>} \cup
    UNION {{SceneVariants[i], LowerAll(SceneVariants[i]), UpperAll(SceneVariants[i]),
            Append(SceneVariants[i], "s"), Tail(SceneVariants[i])} :
           i \in 1..Len(SceneVariants)}

InitParse ==
    /\ call \in [fn : {"parse_scene"}, s : SceneArgs]
    /\ ret = NotCalled
    /\ hitIn = Idle /\ bvh = Idle /\ hitOut = Idle
    /\ matIn = Idle /\ matOut = Idle
    /\ builder = Idle /\ camera = Idle
    /\ screen = Idle /\ encoded = Idle
    /\ path = Idle /\ rc = Idle
    /\ cfg = Idle /\ rows = Idle /\ buffer = Idle /\ rows_done = Idle
    /\ progress = Idle
    /\ noise = Idle
    /\ frames = Idle

CallParseScene ==
    /\ ret = NotCalled
    /\ ret' = ParseScene(call.s)
    /\ UNCHANGED <<call, hitVars, matVars, camVars, encVars, pathVars, renderVars, noiseVars,
                   buildVars>>

NextParse == CallParseScene
SpecParse == InitParse /\ [][NextParse]_vars

\* s and t are the same character for character
SameSpelling(s, t) ==
    Len(s) = Len(t) /\ \A k \in 1..Len(s) : s[k] = t[k]

\* C14: a string parses to a Scene exactly when it is, character for
\* character, the name of a variant, and then to that variant; every other
\* spelling (another case, added separators) is an error
C14_ParseSceneExact ==
    ret.kind # "pending" =>
        /\ ret.kind \in {"ok", "err"}
        /\ ret.kind = "ok" <=>
               \E i \in 1..Len(SceneVariants) : SameSpelling(SceneVariants[i], call.s)
        /\ ret.kind = "ok" => SameSpelling(SceneVariants[ret.scene], call.s)
        /\ call.s \in WrongCase => ret.kind = "err"

\* "Two_spheres" has been rejected
C14_Witness ==
    /\ call.s = <<"T", "w", "o", "_", "s", "p", "h", "e", "r", "e", "s">>
    /\ ret.kind = "err"

\* "TwoSpheres" has parsed to the second variant
C14_WitnessParsed ==
    /\ call.s = SceneVariants[2]
    /\ ret.kind = "ok" /\ ret.scene = 2

\* ---------------------------------------------------------------------
\* BVH::from_list step by step: the recursion of inner_list on a call stack
\* ---------------------------------------------------------------------

\* The number of inner_list frames the thread's stack can hold, scaled down
MaxFrames == 4

\* A frame of inner_list: its hitlist, where it is, and the subtrees its
\* recursive calls have returned
Frame(hitlist) == [list |-> hitlist, pc |-> "enter", left |-> NoTree, right |-> NoTree]

\* split_off at the ceiling of the midpoint
MidCeil(hitlist) == (Len(hitlist) + 1) \div 2
\* hitlist.len() / 2, the index split_off is given
Mid(hitlist) == Len(hitlist) \div 2

BuildLists == PrimLists \cup {<< >>}

\* What inner_list computes from a hitlist alone, tabulated over the lists
\* the construction meets: the node of a list of one item, the node of a list
\* of two, and the orders the sort can leave a list in
OneItemNode ==
    [l \in {l \in BuildLists : Len(l) = 1} |->
        Node(PrimBox(l[1], Shutter), Dummy, Leaf(l[1]))]
TwoItemNode ==
    [l \in {l \in BuildLists : Len(l) = 2} |->
        From(Leaf(l[2]), Leaf(l[1]), Shutter)]
SortedOrders == [l \in BuildLists |-> SortOutcomes(l, Shutter)]

InitBuild ==
    /\ call \in [fn : {"from_list"}, hitlist : BuildLists]
    /\ frames = <<Frame(call.hitlist)>>
    /\ ret = NotCalled
    /\ hitIn = Idle /\ bvh = Idle /\ hitOut = Idle
    /\ matIn = Idle /\ matOut = Idle
    /\ builder = Idle /\ camera = Idle
    /\ screen = Idle /\ encoded = Idle
    /\ path = Idle /\ rc = Idle
    /\ cfg = Idle /\ rows = Idle /\ buffer = Idle /\ rows_done = Idle
    /\ progress = Idle
    /\ noise = Idle

Top == frames[Len(frames)]
Callers == SubSeq(frames, 1, Len(frames) - 1)

\* The stack after the top frame has returned value to the frames fs below:
\* a caller waiting for its left subtree goes on to call inner_list on the
\* second half, a caller waiting for its right subtree has both
AfterReturn(fs, value) ==
    IF fs = << >> THEN << >>
    ELSE LET parent == fs[Len(fs)]
             below == SubSeq(fs, 1, Len(fs) - 1)
         IN  IF parent.pc = "left"
             THEN below \o <<[parent EXCEPT !.pc = "right", !.left = value],
                              Frame(SubSeq(parent.list, Mid(parent.list) + 1,
                                           Len(parent.list)))>>
             ELSE below \o <<[parent EXCEPT !.pc = "join", !.right = value]>>

Return(value) ==
    /\ frames' = AfterReturn(Callers, value)
    /\ ret' = IF Callers = << >> THEN value ELSE ret

\* hitlist.len() == 1: the placeholder on the left, the item on the right
BaseOne ==
    /\ frames # << >>
    /\ Top.pc = "enter"
    /\ Len(Top.list) = 1
    /\ Return(OneItemNode[Top.list])
    /\ UNCHANGED <<call, hitVars, matVars, camVars, encVars, pathVars, renderVars, noiseVars>>

\* hitlist.len() == 2: the two items are popped and joined
BaseTwo ==
    /\ frames # << >>
    /\ Top.pc = "enter"
    /\ Len(Top.list) = 2
    /\ Return(TwoItemNode[Top.list])
    /\ UNCHANGED <<call, hitVars, matVars, camVars, encVars, pathVars, renderVars, noiseVars>>

\* Any other length: sort, split at the midpoint, call inner_list on the
\* first half
SortAndSplit ==
    /\ frames # << >>
    /\ Top.pc = "enter"
    /\ Len(Top.list) \notin {1, 2}
    /\ Len(frames) < MaxFrames
    /\ \E s \in SortedOrders[Top.list] :
           frames' = Callers \o <<[Top EXCEPT !.list = s, !.pc = "left"],
                                  Frame(SubSeq(s, 1, Mid(s)))>>
    /\ UNCHANGED <<call, ret, hitVars, matVars, camVars, encVars, pathVars, renderVars, noiseVars>>

\* The same call when the stack has no room for another frame
StackOverflow ==
    /\ frames # << >>
    /\ Top.pc = "enter"
    /\ Len(Top.list) \notin {1, 2}
    /\ Len(frames) = MaxFrames
    /\ frames' = << >>
    /\ ret' = [kind |-> "abort", msg |-> "stack overflow"]
    /\ UNCHANGED <<call, hitVars, matVars, camVars, encVars, pathVars, renderVars, noiseVars>>

\* Both recursive calls have returned: Self::from(left, right, shutter_time)
Join ==
    /\ frames # << >>
    /\ Top.pc = "join"
    /\ Return(From(Top.left, Top.right, Shutter))
    /\ UNCHANGED <<call, hitVars, matVars, camVars, encVars, pathVars, renderVars, noiseVars>>

NextBuild == BaseOne \/ BaseTwo \/ SortAndSplit \/ StackOverflow \/ Join
\* The construction is straight-line code on one thread: it takes its next
\* step as long as it has one
SpecBuild == InitBuild /\ [][NextBuild]_vars /\ WF_vars(NextBuild)

\* The step-by-step construction returns the trees InnerList describes
BuildAgrees == ret.kind = "bvh" => ret \in FromList(call.hitlist, Shutter)

\* The frames whose sort has run
SortedFrames == {k \in 1..Len(frames) : frames[k].pc \in {"left", "right", "join"}}

OrderedAlong(list, axis) ==
    \A i \in 1..(Len(list) - 1) :
        RLe(PrimBox(list[i], Shutter).min[axis], PrimBox(list[i + 1], Shutter).min[axis])

\* C15: a node that partitions more than 2 children sorts them along one
\* axis: before the midpoint split its list is ordered by the minimum
\* coordinate of the children's boxes along that single axis
C15_SortedAlongOneAxis ==
    \A k \in SortedFrames :
        Len(frames[k].list) > 2 => \E axis \in Axes : OrderedAlong(frames[k].list, axis)

\* The non-placeholder leaves of a tree, left to right
RECURSIVE LeafSeq(_)
LeafSeq(h) ==
    IF h.kind = "leaf" THEN <<h.prim>>
    ELSE IF h.kind = "bvh" THEN LeafSeq(h.left) \o LeafSeq(h.right)
    ELSE << >>

SeqSet(s) == {s[k] : k \in 1..Len(s)}

\* The leaves of tree are the items of list, each once (the items of a
\* hitlist here are distinct)
HoldsExactly(tree, list) ==
    /\ Len(LeafSeq(tree)) = Len(list)
    /\ SeqSet(LeafSeq(tree)) = SeqSet(list)

\* The tree returned for n items, and the halves of every frame that split
BuildShape ==
    LET n == Len(call.hitlist)
    IN  /\ n >= 1 => ret.kind \in {"pending", "bvh"}
        /\ ret.kind = "bvh" =>
               /\ HoldsExactly(ret, call.hitlist)
               /\ n = 1 => {ret.left, ret.right} = {Dummy, Leaf(call.hitlist[1])}
               /\ n = 2 => {ret.left, ret.right} =
                               {Leaf(call.hitlist[1]), Leaf(call.hitlist[2])}
               /\ n > 2 => ret.left.kind = "bvh" /\ ret.right.kind = "bvh"
        /\ \A k \in 1..Len(frames) :
               LET f == frames[k]
                   len == Len(f.list)
               IN  /\ f.pc \in {"left", "right", "join"} => len \notin {1, 2}
                   /\ f.pc \in {"right", "join"} =>
                          HoldsExactly(f.left, SubSeq(f.list, 1, len \div 2))
                   /\ f.pc = "join" =>
                          HoldsExactly(f.right, SubSeq(f.list, (len \div 2) + 1, len))

BuildNonEmpty == Len(call.hitlist) >= 1
Built == ret.kind = "bvh"

\* C16: construction on n >= 1 boundable items terminates with a tree whose
\* non-placeholder leaves are exactly the input items, each once: n = 1
\* gives the placeholder and the item, n = 2 the two items as children, and
\* n > 2 puts the first floor(n/2) items of the sorted list in the left
\* subtree and the other ceil(n/2) in the right subtree
C16_BuildTerminatesExact ==
    /\ []BuildShape
    /\ BuildNonEmpty ~> Built

\* A tree has been returned for three items
C16_Witness ==
    /\ Built
    /\ Len(call.hitlist) = 3
    /\ Len(LeafSeq(ret.left)) = 1 /\ Len(LeafSeq(ret.right)) = 2

\* The BVH nodes of a tree
RECURSIVE Subtrees(_)
Subtrees(h) ==
    IF h.kind = "bvh" THEN {h} \cup Subtrees(h.left) \cup Subtrees(h.right) ELSE {}

\* b is the smallest box around l and r: on every axis each face of b lies
\* on a face of l or r and beyond neither
IsUnionOf(b, l, r) ==
    \A axis \in Axes :
        /\ b.min[axis] \in {l.min[axis], r.min[axis]}
        /\ RLe(b.min[axis], l.min[axis]) /\ RLe(b.min[axis], r.min[axis])
        /\ b.max[axis] \in {l.max[axis], r.max[axis]}
        /\ RLe(l.max[axis], b.max[axis]) /\ RLe(r.max[axis], b.max[axis])

Inside(inner, outer) ==
    \A axis \in Axes :
        RLe(outer.min[axis], inner.min[axis]) /\ RLe(inner.max[axis], outer.max[axis])

\* The time intervals bounding_box is asked about after the construction
QueriedIntervals ==
    {[start |-> Zero, end |-> One], [start |-> Zero, end |-> Half],
     [start |-> One, end |-> R(2)], [start |-> Zero, end |-> Zero]}

NodeBoxed(t) ==
    /\ t.bound_box.some
    /\ IF t.left.kind = "dummy"
       THEN t.bound_box = BoundingBox(t.right, Shutter)
       ELSE IsUnionOf(t.bound_box, BoundingBox(t.left, Shutter),
                      BoundingBox(t.right, Shutter))
    /\ \A p \in SeqSet(LeafSeq(t)) : Inside(PrimBox(p, Shutter), t.bound_box)
    /\ \A g \in QueriedIntervals : BoundingBox(t, g) = t.bound_box

\* Every tree the construction holds: the returned one and the subtrees
\* waiting in its frames
TreesHeld ==
    (IF ret.kind = "bvh" THEN {ret} ELSE {})
        \cup {frames[k].left : k \in 1..Len(frames)}
        \cup {frames[k].right : k \in 1..Len(frames)}

\* C17: in every BVH built by from_list each node's box is the union of its
\* two children's boxes (the single real child's box beside the
\* placeholder), so it contains the box of every leaf below it, and
\* bounding_box returns that box unchanged for every queried interval
C17_NodeBoxIsUnion ==
    \A tree \in TreesHeld : \A t \in Subtrees(tree) : NodeBoxed(t)

\* A returned tree of three items whose root box is larger than the box of
\* either child
C17_Witness ==
    /\ ret.kind = "bvh"
    /\ Len(call.hitlist) = 3
    /\ ret.bound_box # ret.left.bound_box
    /\ ret.bound_box # ret.right.bound_box

\* C18: from_list on a list of 0 children stops by trapping: it neither
\* returns a node nor makes a recursive call
C18_EmptyListTraps ==
    Len(call.hitlist) = 0 =>
        /\ Len(frames) <= 1
        /\ ret.kind \in {"pending", "panic", "abort"}

\* ---------------------------------------------------------------------
\* HitList::hit and BVH::hit against what their members and children report
\* ---------------------------------------------------------------------

\* What every member reports for the caller's range
MemberHits ==
    [i \in 1..Len(hitIn.prims) |-> SphereHit(hitIn.prims[i], hitIn.ray, hitIn.range)]
\* The members of the list that report a hit inside the caller's range
MembersHit == {i \in 1..Len(hitIn.prims) : MemberHits[i].hit}
MemberTime(i) == MemberHits[i].time

\* The earliest member among those with the smallest distance
NearestOf(hits) ==
    CHOOSE i \in DOMAIN hits :
        /\ hits[i].hit
        /\ \A j \in DOMAIN hits :
               hits[j].hit =>
                   \/ RLt(hits[i].time, hits[j].time)
                   \/ hits[i].time = hits[j].time /\ i <= j
Nearest == NearestOf(MemberHits)

\* C20: HitList::hit returns no hit exactly when no member reports a hit
\* inside the caller's interval, and otherwise the hit with the smallest
\* distance among the members' hits in that interval, the earliest member
\* of the list among equals
C20_ListReturnsNearest ==
    hitOut.listDone =>
        LET hits == MemberHits
            some == \E i \in DOMAIN hits : hits[i].hit
        IN  /\ hitOut.list.hit <=> some
            /\ some => hitOut.list = hits[NearestOf(hits)]

\* Two members hit at the same smallest distance and the earlier one, not
\* the later one, has been returned
C20_Witness ==
    /\ hitOut.listDone
    /\ \E i, j \in MembersHit :
           /\ i < j
           /\ MemberTime(i) = MemberTime(j)
           /\ Nearest = i
           /\ hitOut.list.material = hitIn.prims[i].material
           /\ hitIn.prims[i].material # hitIn.prims[j].material

\* A later member is nearer than an earlier one that also hits
C20_WitnessNearer ==
    /\ hitOut.listDone
    /\ \E i, j \in MembersHit : i < j /\ Nearest = j

\* The intervals a node of the tree is probed with: the caller's, and the
\* caller's cut at the distance of the nearest member's hit
ProbeRanges ==
    LET hits == MemberHits
    IN  {hitIn.range} \cup
        (IF \E i \in DOMAIN hits : hits[i].hit
         THEN {[hitIn.range EXCEPT !.end = hits[NearestOf(hits)].time]}
         ELSE {})

\* What BVH::hit has to return at node t for the interval g, from what the
\* box and the two children report
NodeHitAsClaimed(t, g) ==
    LET returned == TreeHit(t, hitIn.ray, g)
        left == TreeHit(t.left, hitIn.ray, g)
        shortened == IF left.hit THEN [g EXCEPT !.end = left.time] ELSE g
        right == TreeHit(t.right, hitIn.ray, shortened)
    IN  IF ~AABBHit(t.bound_box, hitIn.ray, g) THEN returned = NoHit
        ELSE /\ returned = IF right.hit THEN right ELSE left
             /\ (left.hit /\ right.hit) => RLe(right.time, left.time)
             /\ returned.hit => Contains(g, returned.time)

\* C19: BVH::hit returns no hit when the ray misses the node's box;
\* otherwise it returns the right child's hit in the interval shortened to
\* the left child's hit if there is one, else the left child's hit, and
\* whenever both children hit the returned right hit is no farther than the
\* left one
C19_TreeHitPrefersNearer ==
    hitOut.treeDone =>
        /\ hitOut.tree = TreeHit(bvh, hitIn.ray, hitIn.range)
        /\ \A t \in Subtrees(bvh) : \A g \in ProbeRanges : NodeHitAsClaimed(t, g)

\* Both children of the root are hit and the nearer hit, the right child's,
\* has been returned
C19_Witness ==
    /\ hitOut.treeDone
    /\ TreeHit(bvh.left, hitIn.ray, hitIn.range).hit
    /\ hitOut.tree.hit
    /\ RLt(hitOut.tree.time, TreeHit(bvh.left, hitIn.ray, hitIn.range).time)

\* The ray misses the root's box and no hit has been returned
C19_WitnessMiss ==
    /\ hitOut.treeDone
    /\ ~AABBHit(bvh.bound_box, hitIn.ray, hitIn.range)
    /\ hitOut.tree = NoHit

\* ---------------------------------------------------------------------
\* The shared row counter and the progress thread (main.rs)
\* ---------------------------------------------------------------------

\* The rows whose pixels have all been written
RowsWritten == {y \in RowsOf(cfg) : rows.x[y] = cfg.width}
\* The rows whose closure has returned
RowsFinished == {y \in RowsOf(cfg) : rows.pc[y] = "done"}

\* What the claim says of the counter beside the count itself: it never
\* exceeds the height, the thread's `height - rows` never underflows, and
\* it equals the height once the parallel pass has joined
CounterBounded ==
    /\ rows_done <= cfg.height
    /\ progress.rows <= cfg.height
    /\ AllRowsDone => rows_done = cfg.height

\* C21 as stated: rows_done always equals the number of rows whose pixels
\* have all been written, never exceeds the height and equals the height
\* when the parallel pass has joined
C21_CounterEqualsWritten ==
    /\ rows_done = Cardinality(RowsWritten)
    /\ CounterBounded

\* C21 amended: rows_done equals the number of rows whose closure has
\* finished, each of them with all its pixels written, so it never exceeds
\* the number of rows whose pixels have all been written; it never exceeds
\* the height and equals the height when the parallel pass has joined
C21_CounterEqualsFinished ==
    /\ rows_done = Cardinality(RowsFinished)
    /\ RowsFinished \subseteq RowsWritten
    /\ rows_done <= Cardinality(RowsWritten)
    /\ CounterBounded

\* A row has its last pixel written and has not yet added to the counter
C21_Witness ==
    /\ \E y \in RowsWritten : rows.pc[y] = "run"
    /\ rows_done = Cardinality(RowsWritten) - 1
    /\ rows_done >= 1

Exited == progress.pc = "exited"

\* C22: the progress thread exits only after it has read rows_done = height,
\* so never before every row has completed; once every row has completed it
\* eventually exits; and its steps change neither the counter nor the
\* buffer nor the configuration nor the rows
C22_ProgressExitsAtEnd ==
    /\ [](Exited => progress.rows = cfg.height /\ AllRowsDone)
    /\ [][progress' # progress => UNCHANGED <<rows_done, buffer, cfg, rows>>]_vars
    /\ AllRowsDone ~> Exited

\* The thread has polled while a row was still running, and has exited at
\* the end
C22_Witness ==
    /\ Exited
    /\ cfg.height = 2
    /\ AllRowsDone

\* The thread has read a count below the height and goes on polling
C22_WitnessPolling ==
    /\ progress.pc = "poll"
    /\ progress.rows = 1 /\ cfg.height = 2

\* ---------------------------------------------------------------------
\* The screen coordinates the integrator passes to Camera::get_ray (main.rs)
\* ---------------------------------------------------------------------

\* a / b for finite a >= 0 and b >= 0 as f64 computes it: x / 0 is +inf and
\* 0 / 0 is NaN
XDiv(a, b) ==
    IF b # Zero THEN RDiv(a, b) ELSE IF a = Zero THEN NaN ELSE PInf
\* 1 - q for q finite, +inf or NaN
OneMinus(q) ==
    IF IsNaN(q) THEN NaN ELSE IF q = PInf THEN NInf ELSE RSub(One, q)

\* i and j of one sample of pixel (x, y) with the jitter drawn for it
ScreenCoords(width, height, x, y, rand_i, rand_j) ==
    [i |-> XDiv(RAdd(R(x), rand_i), RSub(R(width), One)),
     j |-> OneMinus(XDiv(RAdd(R(y), rand_j), RSub(R(height), One)))]

\* rng.gen::<f64>() is in [0, 1)
Jitters == {Zero, Half, Rat(3, 4)}

CoordCalls ==
    {c \in [fn : {"coords"}, width : 1..MaxWidth, height : 1..MaxHeight,
            x : 0..(MaxWidth - 1), y : 0..(MaxHeight - 1), antialias : BOOLEAN,
            rand_i : Jitters, rand_j : Jitters] :
        /\ c.x < c.width /\ c.y < c.height
        /\ ~c.antialias => c.rand_i = Zero /\ c.rand_j = Zero}

InitCoords ==
    /\ call \in CoordCalls
    /\ ret = NotCalled
    /\ hitIn = Idle /\ bvh = Idle /\ hitOut = Idle
    /\ matIn = Idle /\ matOut = Idle
    /\ builder = Idle /\ camera = Idle
    /\ screen = Idle /\ encoded = Idle
    /\ path = Idle /\ rc = Idle
    /\ cfg = Idle /\ rows = Idle /\ buffer = Idle /\ rows_done = Idle
    /\ progress = Idle
    /\ noise = Idle
    /\ frames = Idle

\* One iteration of the sample loop up to the call of get_ray
ComputeCoords ==
    /\ ret = NotCalled
    /\ ret' = LET c == ScreenCoords(call.width, call.height, call.x, call.y,
                                    call.rand_i, call.rand_j)
              IN  [kind |-> "coords", i |-> c.i, j |-> c.j]
    /\ UNCHANGED <<call, hitVars, matVars, camVars, encVars, pathVars, renderVars, noiseVars,
                   buildVars>>

NextCoords == ComputeCoords
SpecCoords == InitCoords /\ [][NextCoords]_vars

InUnit(a) == XLe(Zero, a) /\ XLe(a, One)

\* C23: for every pixel of the image and every jitter in [0, 1) (zero
\* without antialiasing) the coordinates i and j passed to get_ray lie in
\* [0, 1]
C23_CoordsInUnitSquare ==
    ret.kind = "coords" => InUnit(ret.i) /\ InUnit(ret.j)

\* ---------------------------------------------------------------------
\* The callback of a noise and the adapters that replace or wrap it
\* (material.rs)
\* ---------------------------------------------------------------------

MaxCalls == 3

\* What a callback computes at a point is written as a term: the base
\* noise, a fractal sum or a turbulence of the base noise with its
\* parameters, or a marbling of an inner term
BaseTerm == [op |-> "noise"]

\* The noise before any adapter: no callback
NoCallback == [some |-> FALSE]

\* NoiseAdapter::fBm: the new closure replaces the callback
WithFBm(n, a) ==
    IF AdapterPanics(a.gain, a.layers) THEN [n EXCEPT !.pc = "panic"]
    ELSE [n EXCEPT !.callback =
             [some |-> TRUE,
              term |-> [op |-> "fBm", lacunarity |-> a.lacunarity, gain |-> a.gain,
                        layers |-> a.layers]]]

\* NoiseAdapter::turbulence: the new closure replaces the callback
WithTurbulence(n, a) ==
    IF AdapterPanics(a.gain, a.layers) THEN [n EXCEPT !.pc = "panic"]
    ELSE [n EXCEPT !.callback =
             [some |-> TRUE,
              term |-> [op |-> "turbulence", lacunarity |-> a.lacunarity, gain |-> a.gain,
                        layers |-> a.layers]]]

\* A marbled that always wraps the base noise
WithMarbledOverBase(n, a) ==
    [n EXCEPT !.callback =
        [some |-> TRUE,
         term |-> [op |-> "marbled", sin_freq |-> a.sin_freq, phase_shift |-> a.phase_shift,
                   gain |-> RMul(n.freq, a.noise_gain), inner |-> BaseTerm]]]
\* NoiseAdapter::marbled: takes the callback (the base noise when there is
\* none) and installs a closure around it
WithMarbled(n, a) ==
    LET callback == IF n.callback.some THEN n.callback.term ELSE BaseTerm
    IN  [n EXCEPT !.callback =
            [some |-> TRUE,
             term |-> [op |-> "marbled", sin_freq |-> a.sin_freq,
                       phase_shift |-> a.phase_shift,
                       gain |-> RMul(n.freq, a.noise_gain), inner |-> callback]]]

\* ValueNoise::eval / PerlinNoise::eval
NoiseEval(n) == IF n.callback.some THEN n.callback.term ELSE BaseTerm

LayeredArgs ==
    {[lacunarity |-> R(2), gain |-> Half, layers |-> 2],
     [lacunarity |-> R(2), gain |-> Half, layers |-> 0],
     [lacunarity |-> R(2), gain |-> One, layers |-> 2],
     [lacunarity |-> R(2), gain |-> Zero, layers |-> 1]}
MarbledArgs ==
    {[sin_freq |-> One, phase_shift |-> Zero, noise_gain |-> R(2)],
     [sin_freq |-> R(3), phase_shift |-> One, noise_gain |-> Half]}

\* call is the sequence of adapter calls made so far on the noise
InitAdapter ==
    /\ noise = [freq |-> R(4), callback |-> NoCallback, pc |-> "ok"]
    /\ call = << >>
    /\ ret = Idle
    /\ hitIn = Idle /\ bvh = Idle /\ hitOut = Idle
    /\ matIn = Idle /\ matOut = Idle
    /\ builder = Idle /\ camera = Idle
    /\ screen = Idle /\ encoded = Idle
    /\ path = Idle /\ rc = Idle
    /\ cfg = Idle /\ rows = Idle /\ buffer = Idle /\ rows_done = Idle
    /\ progress = Idle
    /\ frames = Idle

AttachFBm ==
    /\ noise.pc = "ok"
    /\ Len(call) < MaxCalls
    /\ \E a \in LayeredArgs :
           /\ noise' = WithFBm(noise, a)
           /\ call' = Append(call, [fn |-> "fBm", args |-> a])
    /\ UNCHANGED <<ret, hitVars, matVars, camVars, encVars, pathVars, renderVars, buildVars>>

AttachTurbulence ==
    /\ noise.pc = "ok"
    /\ Len(call) < MaxCalls
    /\ \E a \in LayeredArgs :
           /\ noise' = WithTurbulence(noise, a)
           /\ call' = Append(call, [fn |-> "turbulence", args |-> a])
    /\ UNCHANGED <<ret, hitVars, matVars, camVars, encVars, pathVars, renderVars, buildVars>>

AttachMarbled ==
    /\ noise.pc = "ok"
    /\ Len(call) < MaxCalls
    /\ \E a \in MarbledArgs :
           /\ noise' = WithMarbled(noise, a)
           /\ call' = Append(call, [fn |-> "marbled", args |-> a])
    /\ UNCHANGED <<ret, hitVars, matVars, camVars, encVars, pathVars, renderVars, buildVars>>

NextAdapter == AttachFBm \/ AttachTurbulence \/ AttachMarbled
SpecAdapter == InitAdapter /\ [][NextAdapter]_vars

\* The last fBm or turbulence call of a sequence of calls, 0 when none
LastLayered(calls) ==
    LET at == {k \in 1..Len(calls) : calls[k].fn \in {"fBm", "turbulence"}}
    IN  IF at = {} THEN 0 ELSE CHOOSE k \in at : \A other \in at : other <= k

\* The term the claim describes for the calls up to the n-th: the last
\* layered call, then every marbled call after it, the later the outer
RECURSIVE ClaimedTerm(_, _)
ClaimedTerm(calls, n) ==
    IF n = 0 THEN BaseTerm
    ELSE IF n = LastLayered(calls)
    THEN [op |-> calls[n].fn, lacunarity |-> calls[n].args.lacunarity,
          gain |-> calls[n].args.gain, layers |-> calls[n].args.layers]
    ELSE IF n < LastLayered(calls) THEN BaseTerm
    ELSE [op |-> "marbled", sin_freq |-> calls[n].args.sin_freq,
          phase_shift |-> calls[n].args.phase_shift,
          gain |-> RMul(R(4), calls[n].args.noise_gain),
          inner |-> ClaimedTerm(calls, n - 1)]

\* A layered call whose parameters the adapter must refuse
MustTrap(c) ==
    /\ c.fn \in {"fBm", "turbulence"}
    /\ (c.args.layers = 0 \/ ~RLt(Zero, c.args.gain) \/ ~RLt(c.args.gain, One))

\* C24: after any sequence of fBm, turbulence and marbled calls eval is the
\* most recent fBm or turbulence wrapped by each marbled made after it, in
\* call order, and the base noise when no adapter was called; fBm and
\* turbulence trap when attached with layers = 0 or a gain outside (0, 1)
C24_EvalIsLastLayeredThenMarbled ==
    /\ noise.pc = "panic" <=> (call # << >> /\ MustTrap(call[Len(call)]))
    /\ \A k \in 1..(Len(call) - 1) : ~MustTrap(call[k])
    /\ noise.pc = "ok" => NoiseEval(noise) = ClaimedTerm(call, Len(call))

\* marbled, then fBm, then marbled: the first marbling is gone
C24_Witness ==
    /\ Len(call) = 3
    /\ call[1].fn = "marbled" /\ call[2].fn = "fBm" /\ call[3].fn = "marbled"
    /\ noise.pc = "ok"
    /\ NoiseEval(noise).inner.op = "fBm"

\* A turbulence with 0 layers has trapped
C24_WitnessTrap ==
    /\ noise.pc = "panic"
    /\ call[Len(call)].fn = "turbulence"
    /\ call[Len(call)].args.layers = 0

\* ---------------------------------------------------------------------
\* The constructors of Metal (material.rs)
\* ---------------------------------------------------------------------

\* Metal::from: the array becomes the albedo, the rest is Metal::new
MetalFrom(a, fuzz) == MetalNew(<<a[1], a[2], a[3]>>, fuzz)

\* Every kind of f64 a caller can pass as the fuzz
FuzzValues ==
    {NInf, R(-2), R(-1), Rat(-1, 2), Rat(-1, 100), Zero, Rat(1, 100), Half,
     Rat(99, 100), One, Rat(101, 100), R(2), PInf, NaN}

InitMetal ==
    /\ call \in [ctor : {"new", "from"}, albedo : Albedos, fuzz : FuzzValues]
    /\ ret = NotCalled
    /\ hitIn = Idle /\ bvh = Idle /\ hitOut = Idle
    /\ matIn = Idle /\ matOut = Idle
    /\ builder = Idle /\ camera = Idle
    /\ screen = Idle /\ encoded = Idle
    /\ path = Idle /\ rc = Idle
    /\ cfg = Idle /\ rows = Idle /\ buffer = Idle /\ rows_done = Idle
    /\ progress = Idle
    /\ noise = Idle
    /\ frames = Idle

CallMetalNew ==
    /\ ret = NotCalled
    /\ call.ctor = "new"
    /\ ret' = [kind |-> "ok", metal |-> MetalNew(call.albedo, call.fuzz)]
    /\ UNCHANGED <<call, hitVars, matVars, camVars, encVars, pathVars, renderVars, noiseVars,
                   buildVars>>

CallMetalFrom ==
    /\ ret = NotCalled
    /\ call.ctor = "from"
    /\ ret' = [kind |-> "ok", metal |-> MetalFrom(call.albedo, call.fuzz)]
    /\ UNCHANGED <<call, hitVars, matVars, camVars, encVars, pathVars, renderVars, noiseVars,
                   buildVars>>

NextMetal == CallMetalNew \/ CallMetalFrom
SpecMetal == InitMetal /\ [][NextMetal]_vars

\* C25: for every fuzz passed to Metal::new or Metal::from the fuzz stored
\* in the material is between 0.0 and 1.0
C25_StoredFuzzInUnit ==
    ret.kind = "ok" => XLe(Zero, ret.metal.fuzz) /\ XLe(ret.metal.fuzz, One)

\* ---------------------------------------------------------------------
\* The per-row seeds of one render and of two renders (main.rs)
\* ---------------------------------------------------------------------

\* The rows whose closure has seeded its generator
Seeded == {y \in RowsOf(cfg) : rows.pc[y] # "idle"}

\* C26: for every run-level seed any two different rows of the image
\* receive different per-row seeds
C26_RowsSeededApart ==
    \A y1 \in Seeded : \A y2 \in Seeded :
        y1 # y2 => RowSeed(cfg.seed, y1) # RowSeed(cfg.seed, y2)

\* C27: for every row, a render with another run-level seed gives the row
\* another per-row seed
C27_RowSeedFollowsRunSeed ==
    \A y \in Seeded : \A other \in 0..(SeedModulus - 1) :
        other # cfg.seed => RowSeed(other, y) # RowSeed(cfg.seed, y)

\* ---------------------------------------------------------------------
\* Termination of ray_color (main.rs)
\* ---------------------------------------------------------------------

\* The iterations of the loop body run so far: one per scatter, and the
\* one that ended with an absorption
Iterations == rc.scatters + (IF rc.exit = "absorbed" THEN 1 ELSE 0)

\* C28: ray_color returns for every scene and every material behaviour,
\* after at most max_ray_depth iterations of its hit-and-scatter loop
C28_RayColorTerminates ==
    /\ <>(rc.pc = "done")
    /\ [](Iterations <= rc.max_ray_depth)

\* Every surface is a DbgBlack and the ray never leaves: the loop ran for
\* the whole budget on the same ray and returned
C28_Witness ==
    /\ rc.pc = "done" /\ rc.exit = "budget"
    /\ rc.max_ray_depth = MaxDepth
    /\ Iterations = MaxDepth
    /\ Len(path.steps) > MaxDepth
    /\ rc.camera_dir = V(1, 0, 0) /\ rc.dir = rc.camera_dir
    /\ \A k \in 1..Len(path.steps) : path.steps[k] = DbgBlackScatter

\* ---------------------------------------------------------------------
\* What CameraBuilder::build can end with (screen.rs)
\* ---------------------------------------------------------------------

\* C29: build never traps: for every builder state it returns Ok(camera)
\* or an Err, since all it unwraps or converts was validated by verify
C29_BuildNeverTraps ==
    camera.built => camera.kind \in {"ok", "err"}

\* ---------------------------------------------------------------------
\* The lattice lookup of the noise textures (material.rs)
\* ---------------------------------------------------------------------

\* `c & MASK` with a sign-following remainder in its place
MaskRem(c) == IF c < 0 THEN -((-c) % NoiseSize) ELSE c % NoiseSize
\* `c & MASK` on a two's complement isize, MASK = SIZE - 1: the euclidean
\* remainder by SIZE, also for a negative c
Mask(c) == c % NoiseSize

InTable(k) == k \in 0..(2 * NoiseSize - 1)

\* ValueNoise::hash / PerlinNoise::hash with every index it computes; an
\* index outside the table panics
Hash(perms, x, y, z) ==
    IF ~InTable(x) THEN [panic |-> TRUE, perm_xy |-> 0, plus_z |-> 0, value |-> 0]
    ELSE LET perm_xy == perms[x + 1] + y
         IN  IF ~InTable(perm_xy)
             THEN [panic |-> TRUE, perm_xy |-> perm_xy, plus_z |-> 0, value |-> 0]
             ELSE LET plus_z == perms[perm_xy + 1] + z
                  IN  IF ~InTable(plus_z)
                      THEN [panic |-> TRUE, perm_xy |-> perm_xy, plus_z |-> plus_z,
                            value |-> 0]
                      ELSE [panic |-> FALSE, perm_xy |-> perm_xy, plus_z |-> plus_z,
                            value |-> perms[plus_z + 1]]

\* floor_p of the query points, as integers
LatticeFloors ==
    {<<0, 0, 0>>, <<-1, -1, -1>>, <<3, -5, 7>>,
     <<NoiseSize - 1, NoiseSize - 1, NoiseSize - 1>>,
     <<-NoiseSize, 2 * NoiseSize + 1, -7>>, <<255, -256, 1000>>}

\* ValueNoise::noise / PerlinNoise::noise up to the corner lookups: the
\* masked coordinates and the eight hashes
LatticeLookup ==
    /\ noise.pc = "done"
    /\ \E floor_p \in LatticeFloors :
           LET r0 == [c \in 1..3 |-> Mask(floor_p[c])]
               r1 == [c \in 1..3 |-> Mask(r0[c] + 1)]
               r == <<r0, r1>>
           IN  /\ call' = floor_p
               /\ ret' = [r0 |-> r0, r1 |-> r1,
                          corners |-> [bx \in 1..2, by \in 1..2, bz \in 1..2 |->
                                          Hash(noise.perms, r[bx][1], r[by][2], r[bz][3])]]
    /\ noise' = [noise EXCEPT !.pc = "used"]
    /\ UNCHANGED <<hitVars, matVars, camVars, encVars, pathVars, renderVars, buildVars>>

NextLattice == NextNoise \/ LatticeLookup
SpecLattice == InitNoise /\ [][NextLattice]_vars

InSize(k) == k \in 0..(NoiseSize - 1)

\* C30: for every seed and every query point the masked lattice
\* coordinates lie in 0..SIZE-1 (also for negative floors), every table
\* entry is in 0..SIZE-1, every index hash computes is inside the table of
\* 2 * SIZE entries, and the index it returns is below SIZE
C30_LookupInBounds ==
    noise.pc = "used" =>
        /\ \A c \in 1..3 : InSize(ret.r0[c]) /\ InSize(ret.r1[c])
        /\ \A k \in 1..(2 * NoiseSize) : InSize(noise.perms[k])
        /\ \A bx \in 1..2, by \in 1..2, bz \in 1..2 :
               LET h == ret.corners[bx, by, bz]
               IN  /\ ~h.panic
                   /\ InTable(h.perm_xy) /\ InTable(h.plus_z)
                   /\ InSize(h.value)

\* A lookup below zero on every axis that read the upper half of the table
C30_Witness ==
    /\ noise.pc = "used"
    /\ call = <<-1, -1, -1>>
    /\ ret.r0 = [c \in 1..3 |-> NoiseSize - 1]
    /\ ret.r1 = [c \in 1..3 |-> 0]
    /\ ret.corners[1, 1, 1].plus_z >= NoiseSize

====
